---- MODULE Spec2Model ----
(***************************************************************************)
(* Model of the sendmer transfer orchestrator.                             *)
(*                                                                         *)
(*   Spec      one receive session: core/receive.rs download, with         *)
(*             get_sizes_with_retries, process_get_stream and export       *)
(*   SpecPath  the two name <-> path mappings: get_export_path             *)
(*             (core/receive.rs) and canonicalized_path_to_string          *)
(*             (core/send.rs)                                              *)
(*   SpecAddr  apply_options (core/common.rs, core/types.rs)               *)
(*   SpecSend  one sender session: core/send.rs send and import, and the   *)
(*             export of the imported collection into an empty directory   *)
(*   SpecRerun a receive session followed by a second one of the same      *)
(*             ticket after an export failure                              *)
(*   SpecTwo   two receive sessions running at the same time               *)
(*   SpecItems one import worker's loop over the items of add_path         *)
(*             (core/send.rs import)                                       *)
(*   SpecProgress, SpecProgressLive, SpecPoison                            *)
(*             show_provide_progress and per_request_progress              *)
(*             (core/progress.rs): without and with fairness, and with a   *)
(*             connections mutex that may be poisoned                      *)
(*   SpecCli   the calls on one CliEventEmitter (cli_progress.rs)          *)
(*                                                                         *)
(* Strings that the code inspects (collection names, path components) are  *)
(* sequences of one-character strings.  Paths are sequences of components. *)
(* The unix build is modelled: '/' is the only separator of std::path.     *)
(***************************************************************************)
EXTENDS Integers, Sequences, FiniteSets, TLC

VARIABLES
    \* ---- receive session (download) ----
    sel,            \* position of download around the select!
    pc,             \* position of the receive body `fut`
    sig,            \* the ctrl-c signal has arrived while the select was pending
    branch,         \* branch of the select! that completed: "none", "fut", "ctrl_c"
    tempDir,        \* iroh_data_dir exists on disk
    store,          \* content of the store in iroh_data_dir: "empty", "partial", "complete"
    local,          \* fut: the answer of db.remote().local(..)
    app,            \* app_handle: "None" or "Some"
    events,         \* events handed to the sink, in order
    attempt,        \* loop variable of get_sizes_with_retries
    attemptLog,     \* one record per get_hash_seq_and_sizes call, in order
    last_err,       \* get_sizes_with_retries: last_err
    sizes_opt,      \* get_sizes_with_retries: sizes_opt
    connection,     \* get_sizes_with_retries: id of the connection in use
    connects,       \* number of endpoint.connect calls made
    waits,          \* backoff sleeps made, in milliseconds
    gets,           \* number of execute_get calls made
    payload_size,   \* download: payload_size
    total_files,    \* download: total_files
    last_log_offset,\* process_get_stream: last_log_offset
    streamPos,      \* last offset delivered by the retrieval stream
    streamDone,     \* the retrieval stream has delivered its Done item
    collection,     \* the collection named by the ticket (sequence of names)
    loaded,         \* Collection::load has returned the collection
    exportIdx,      \* export: index of the next entry
    fs,             \* output directory: content at each export target
    fs0,            \* the output directory as it was when download was called
    bodyErr,        \* error returned by the receive body
    ret,            \* value returned by download
    \* ---- name <-> path mappings ----
    pname,          \* the name or path under test
    exportRes,      \* result of get_export_path
    importRes,      \* result of canonicalized_path_to_string
    \* ---- apply_options ----
    addr0,          \* the address before apply_options
    addr,           \* the address, changed in place
    opts,           \* the AddrInfoOptions policy
    applied,        \* the apply_options calls made: which of the two copies, in order
    \* ---- sender session (send, import) ----
    tree,           \* the path given to send: its kind and its regular files
    parallelism,    \* import: num_cpus::get()
    relay_mode,     \* send: the endpoint's relay mode
    spc,            \* position of send
    blobs_data_dir, \* the sender's working directory exists on disk
    sendRet,        \* how send ended: its result, or the exit code of the process
    data_sources,   \* import: the (name, path) pairs, in enumeration order
    workers,        \* import: state of the import of each data source
    finished,       \* import: the workers' results, in completion order
    import_result,  \* the value import returned
    db,             \* hashes the sender's store holds
    ticket,         \* the ticket send built
    exported,       \* result of exporting the imported collection elsewhere
    \* ---- second receive run ----
    prevRun,        \* how the earlier receive run of the same ticket ended
    \* ---- two receive sessions ----
    twoTicket,      \* the hash of each session's ticket
    twoPc,          \* position of each session
    twoDir,         \* iroh_data_dir of each session
    tmpDirs,        \* the directories that exist under std::env::temp_dir()
    twoRet,         \* value returned by each session
    \* ---- one import worker's item loop ----
    items,          \* the items the import stream delivers, in order
    itemPos,        \* number of items the loop has consumed
    item_size,      \* import worker: item_size
    itemRes,        \* the worker's result
    \* ---- provider progress (show_provide_progress) ----
    connections,    \* the shared map: connection id -> its request entries
    poisoned,       \* the map's mutex is poisoned
    recvClosed,     \* the provider message channel is closed
    msgCount,       \* number of provider messages received
    lastMsg,        \* the provider message handled last
    spp,            \* position of show_provide_progress
    tasks,          \* the per_request_progress futures, by (connection, request)
    \* ---- CliEventEmitter ----
    pb,             \* CliEventEmitter.pb: None, or Some(index of the bar in mp)
    bars,           \* the bars added to mp: "active", "cleared" or "abandoned"
    cliLog,         \* the calls made on the emitter, in order
    cliRet          \* the result of the last call

sessionVars == <<sel, pc, sig, branch, tempDir, store, local, app, events, attempt,
                 attemptLog, last_err, sizes_opt, connection, connects, waits,
                 gets, payload_size, total_files, last_log_offset, streamPos,
                 streamDone, collection, loaded, exportIdx, fs, fs0, bodyErr, ret>>
pathVars == <<pname, exportRes, importRes>>
addrVars == <<addr0, addr, opts, applied>>
sendVars == <<tree, parallelism, relay_mode, spc, blobs_data_dir, sendRet, data_sources, workers,
              finished, import_result, db, ticket, exported>>
rerunVars == <<prevRun>>
twoVars == <<twoTicket, twoPc, twoDir, tmpDirs, twoRet>>
itemVars == <<items, itemPos, item_size, itemRes>>
progVars == <<connections, poisoned, recvClosed, msgCount, lastMsg, spp, tasks>>
cliVars == <<pb, bars, cliLog, cliRet>>
moreVars == <<itemVars, progVars, cliVars>>
oldVars == <<sessionVars, pathVars, addrVars, sendVars, rerunVars, twoVars>>
vars == <<oldVars, moreVars>>

(***************************************************************************)
(* Bounds                                                                  *)
(***************************************************************************)
MaxNameLen == 4        \* longest name of SpecPath, in characters
MaxEntries == 2        \* longest collection of a session
MaxSizes == 2          \* longest size list the remote answers with
MaxChunks == 3         \* stream offsets are 0 .. MaxChunks chunks
ChunkSize == 520000    \* bytes per chunk of the retrieval stream
MaxRelay == 2          \* relay addresses of the endpoint
MaxIp == 2             \* ip addresses of the endpoint
MaxApply == 2          \* apply_options calls on one address

\* Option: None and Some(v)
None == [some |-> FALSE]
Some(v) == [some |-> TRUE, v |-> v]

\* no error
NoErr == <<"none">>

(***************************************************************************)
(* Strings                                                                 *)
(***************************************************************************)
PathChars == {"a", ".", "/", "\\"}

RECURSIVE StringsUpTo(_)
StringsUpTo(n) ==
    IF n = 0 THEN {<<>>}
    ELSE LET shorter == StringsUpTo(n - 1)
         IN  shorter \cup {Append(s, c) : s \in shorter, c \in PathChars}

contains(s, c) == \E i \in 1..Len(s) : s[i] = c

\* str::split('/'): the parts between the separators; never empty as a list
split(s) ==
    LET F[i \in 0..Len(s)] ==
            IF i = 0 THEN << <<>> >>
            ELSE LET prev == F[i - 1]
                     n == Len(prev)
                 IN  IF s[i] = "/" THEN Append(prev, <<>>)
                     ELSE [prev EXCEPT ![n] = Append(prev[n], s[i])]
    IN  F[Len(s)]

\* [&str]::join("/")
RECURSIVE join(_)
join(parts) ==
    IF Len(parts) = 0 THEN <<>>
    ELSE IF Len(parts) = 1 THEN parts[1]
    ELSE parts[1] \o <<"/">> \o join(Tail(parts))

(***************************************************************************)
(* core/receive.rs: collection name -> export path                         *)
(***************************************************************************)
validate_path_component(component) == ~contains(component, "/")

get_export_path(root, name) ==
    LET parts == split(name)
    IN  IF \A i \in 1..Len(parts) : validate_path_component(parts[i])
        THEN [ok |-> TRUE, path |-> root \o parts]
        ELSE [ok |-> FALSE, path |-> <<>>]

\* the file a path names in the filesystem: "" and "." stay, ".." goes up
RECURSIVE resolve(_)
resolve(path) ==
    IF Len(path) = 0 THEN <<>>
    ELSE LET before == resolve(SubSeq(path, 1, Len(path) - 1))
             last == path[Len(path)]
         IN  IF last = <<>> \/ last = <<".">> THEN before
             ELSE IF last = <<".", ".">>
                  THEN IF Len(before) = 0 THEN <<>>
                       ELSE SubSeq(before, 1, Len(before) - 1)
             ELSE Append(before, last)

isPrefix(p, q) == Len(p) <= Len(q) /\ SubSeq(q, 1, Len(p)) = p

(***************************************************************************)
(* core/send.rs: filesystem path -> collection name                        *)
(***************************************************************************)
\* std::path::Path::components (unix): a leading '/' is RootDir, empty parts
\* vanish, "." is CurDir at the start of a rootless path and vanishes
\* elsewhere, ".." is ParentDir, everything else is Normal
components(path) ==
    LET parts == split(path)
        hasRoot == Len(path) > 0 /\ path[1] = "/"
        kept == SelectSeq(parts, LAMBDA p : p # <<>>)
        Comp(p) == IF p = <<".", ".">> THEN [kind |-> "ParentDir", s |-> p]
                   ELSE IF p = <<".">> THEN [kind |-> "CurDir", s |-> p]
                   ELSE [kind |-> "Normal", s |-> p]
        all == [i \in 1..Len(kept) |-> Comp(kept[i])]
        leadingCur == ~hasRoot /\ Len(all) > 0 /\ all[1].kind = "CurDir"
        body == IF leadingCur
                THEN <<all[1]>> \o SelectSeq(Tail(all), LAMBDA c : c.kind # "CurDir")
                ELSE SelectSeq(all, LAMBDA c : c.kind # "CurDir")
    IN  IF hasRoot THEN <<[kind |-> "RootDir", s |-> <<"/">>]>> \o body ELSE body

canonicalized_path_to_string_skips_dots(path, must_be_relative) ==
    LET comps == components(path)
        Bad(c) == \/ c.kind = "Normal" /\ (contains(c.s, "/") \/ contains(c.s, "\\"))
                  \/ c.kind = "RootDir" /\ must_be_relative
                  \/ c.kind = "ParentDir"
        normals == SelectSeq(comps, LAMBDA c : c.kind = "Normal")
        parts == [i \in 1..Len(normals) |-> normals[i].s]
        lead == IF \E i \in 1..Len(comps) : comps[i].kind = "RootDir"
                THEN <<"/">> ELSE <<>>
    IN  IF \E i \in 1..Len(comps) : Bad(comps[i])
        THEN [ok |-> FALSE, str |-> <<>>]
        ELSE [ok |-> TRUE, str |-> lead \o join(parts)]

canonicalized_path_to_string(path, must_be_relative) ==
    LET comps == components(path)
        Bad(c) == \/ c.kind = "Normal" /\ (contains(c.s, "/") \/ contains(c.s, "\\"))
                  \/ c.kind = "RootDir" /\ must_be_relative
                  \/ c.kind \in {"CurDir", "ParentDir"}
        normals == SelectSeq(comps, LAMBDA c : c.kind = "Normal")
        parts == [i \in 1..Len(normals) |-> normals[i].s]
        lead == IF \E i \in 1..Len(comps) : comps[i].kind = "RootDir"
                THEN <<"/">> ELSE <<>>
    IN  IF \E i \in 1..Len(comps) : Bad(comps[i])
        THEN [ok |-> FALSE, str |-> <<>>]
        ELSE [ok |-> TRUE, str |-> lead \o join(parts)]

(***************************************************************************)
(* core/common.rs, core/types.rs: apply_options                            *)
(***************************************************************************)
AddrInfoOptions == {"Id", "RelayAndAddresses", "Relay", "Addresses"}

TransportAddr == {<<"Relay", i>> : i \in 1..MaxRelay} \cup {<<"Ip", i>> : i \in 1..MaxIp}

apply_options_complement(a, o) ==
    CASE o = "Id" -> [a EXCEPT !.addrs = TransportAddr \ a.addrs]
      [] o = "RelayAndAddresses" -> a
      [] o = "Relay" -> [a EXCEPT !.addrs = {x \in a.addrs : x[1] = "Relay"}]
      [] o = "Addresses" -> [a EXCEPT !.addrs = {x \in a.addrs : x[1] = "Ip"}]

apply_options_swapped(a, o) ==
    CASE o = "Id" -> [a EXCEPT !.addrs = {}]
      [] o = "RelayAndAddresses" -> a
      [] o = "Relay" -> [a EXCEPT !.addrs = {x \in a.addrs : x[1] = "Ip"}]
      [] o = "Addresses" -> [a EXCEPT !.addrs = {x \in a.addrs : x[1] = "Relay"}]

apply_options(a, o) ==
    CASE o = "Id" -> [a EXCEPT !.addrs = {}]
      [] o = "RelayAndAddresses" -> a
      [] o = "Relay" -> [a EXCEPT !.addrs = {x \in a.addrs : x[1] = "Relay"}]
      [] o = "Addresses" -> [a EXCEPT !.addrs = {x \in a.addrs : x[1] = "Ip"}]

types_apply_options(a, o) ==
    CASE o = "Id" -> [a EXCEPT !.addrs = {}]
      [] o = "RelayAndAddresses" -> a
      [] o = "Relay" -> [a EXCEPT !.addrs = {x \in a.addrs : x[1] = "Relay"}]
      [] o = "Addresses" -> [a EXCEPT !.addrs = {x \in a.addrs : x[1] = "Ip"}]

(***************************************************************************)
(* core/types.rs: events                                                   *)
(***************************************************************************)
Started == [type |-> "Started"]
Completed == [type |-> "Completed"]
Progress(processed, total) == [type |-> "Progress", processed |-> processed, total |-> total]
FileNames_none(file_names) == [type |-> "FileNames", file_names |-> <<>>]

FileNames(file_names) == [type |-> "FileNames", file_names |-> file_names]

emit_event(a, log, event) == IF a = "Some" THEN Append(log, event) ELSE log

(***************************************************************************)
(* The environment of a receive session                                    *)
(***************************************************************************)
\* GetError variants the remote side and the stream answer with; the code
\* reads the variant only to choose a log line (log_get_error)
GetErrors == {"Decode"}

\* the GetError value of the n-th get_hash_seq_and_sizes call (n = 0: of the
\* retrieval stream); every failure is an error value of its own
GetError(kind, n) == <<"get", kind, n>>

MetaSize == 100000     \* size of the collection's metadata blob (first entry)
FileSize == 1500000    \* size of a file blob (the entries after the first)

RECURSIVE SeqsUpTo(_, _)
SeqsUpTo(S, n) ==
    IF n = 0 THEN {<<>>}
    ELSE LET shorter == SeqsUpTo(S, n - 1)
         IN  shorter \cup {Append(s, x) : s \in shorter, x \in S}

\* the size lists get_hash_seq_and_sizes can answer with: the size of the
\* hash sequence's first child (the metadata), then one size per file
SizeLists == {[i \in 1..n |-> IF i = 1 THEN MetaSize ELSE FileSize] : n \in 0..MaxSizes}

\* offsets the retrieval stream reports
Offsets == {c * ChunkSize : c \in 1..MaxChunks}

\* entry names of the collections: "a", "./a" (the same file as "a") and "d/b"
SessionNames == {<<"a">>, <<".", "/", "a">>, <<"d", "/", "b">>}

NoDuplicates(s) == \A i, j \in 1..Len(s) : i # j => s[i] # s[j]

Collections == {c \in SeqsUpTo(SessionNames, MaxEntries) : NoDuplicates(c)}

OutputDir == << <<"o", "u", "t">> >>

\* the files of the output directory that the export targets name
Targets == {resolve(get_export_path(OutputDir, n).path) : n \in SessionNames}

RECURSIVE Sum(_)
Sum(s) == IF Len(s) = 0 THEN 0 ELSE s[1] + Sum(Tail(s))

skip_none(s) == s

\* Iterator::skip(1)
skip1(s) == IF Len(s) = 0 THEN <<>> ELSE Tail(s)

\* usize::saturating_sub(1)
saturating_sub1(n) == IF n = 0 THEN 0 ELSE n - 1

Err(e) == [ok |-> FALSE, err |-> e]
\* ReceiveResult: the numbers, and the message made of them
Ok(files, bytes) ==
    [ok |-> TRUE, files |-> files, bytes |-> bytes,
     message |-> <<"Downloaded ", files, " files, ", bytes, " bytes">>]

(***************************************************************************)
(* core/receive.rs: download                                               *)
(***************************************************************************)
sessionInputs == <<app, collection, fs0>>
gsVars == <<attempt, attemptLog, last_err, sizes_opt, connection, waits, local>>
streamVars == <<last_log_offset, streamPos, streamDone>>
otherSpecs == <<pathVars, addrVars, sendVars, rerunVars, twoVars, moreVars>>

PathIdle == pname = <<>> /\ exportRes = None /\ importRes = None
AddrIdle == addr0 = None /\ addr = None /\ opts = "Id" /\ applied = <<>>
SendIdle ==
    /\ tree = None /\ parallelism = 0 /\ relay_mode = "Default"
    /\ spc = "idle" /\ blobs_data_dir = FALSE
    /\ sendRet = None /\ data_sources = <<>> /\ workers = <<>> /\ finished = <<>>
    /\ import_result = None /\ db = {} /\ ticket = None /\ exported = None
RerunIdle == prevRun = None
ItemIdle == items = <<>> /\ itemPos = 0 /\ item_size = 0 /\ itemRes = None
ConnIds == {1, 2}
ReqIds == {1, 2}
Pairs == ConnIds \X ReqIds
NoTask == [st |-> "none", registered |-> FALSE, removed |-> FALSE, updates |-> 0,
           rxClosed |-> FALSE]
ProgIdle ==
    /\ connections = [c \in ConnIds |-> None]
    /\ poisoned = FALSE /\ recvClosed = FALSE /\ msgCount = 0 /\ lastMsg = None
    /\ spp = "idle"
    /\ tasks = [t \in Pairs |-> NoTask]
CliIdle == pb = None /\ bars = <<>> /\ cliLog = <<>> /\ cliRet = None
MoreIdle == ItemIdle /\ ProgIdle /\ CliIdle
TwoIdle ==
    /\ twoTicket = <<>> /\ twoPc = <<>> /\ twoDir = <<>> /\ tmpDirs = {}
    /\ twoRet = <<>>
SessionIdle ==
    /\ sel = "idle" /\ pc = "idle" /\ sig = FALSE /\ branch = "none"
    /\ tempDir = FALSE /\ store = "empty" /\ local = None /\ app = "None"
    /\ events = <<>>
    /\ attempt = 0 /\ attemptLog = <<>> /\ last_err = None /\ sizes_opt = None
    /\ connection = 0 /\ connects = 0 /\ waits = <<>> /\ gets = 0
    /\ payload_size = 0 /\ total_files = 0 /\ last_log_offset = 0
    /\ streamPos = 0 /\ streamDone = FALSE
    /\ collection = <<>> /\ loaded = FALSE /\ exportIdx = 0
    /\ fs = <<>> /\ fs0 = <<>> /\ bodyErr = NoErr /\ ret = None

Init ==
    /\ sel = "prepare" /\ pc = "local" /\ sig = FALSE /\ branch = "none"
    \* the working directory is named after the ticket's hash: an earlier
    \* session of the same ticket may have left it behind
    /\ \E d \in {<<FALSE, "empty">>, <<TRUE, "complete">>} :
          tempDir = d[1] /\ store = d[2]
    /\ local = None
    /\ app \in {"None", "Some"}
    /\ events = <<>>
    /\ attempt = 0 /\ attemptLog = <<>> /\ last_err = None /\ sizes_opt = None
    /\ connection = 0 /\ connects = 0 /\ waits = <<>> /\ gets = 0
    /\ payload_size = 0 /\ total_files = 0 /\ last_log_offset = 0
    /\ streamPos = 0 /\ streamDone = FALSE
    /\ collection \in Collections
    /\ loaded = FALSE /\ exportIdx = 0
    /\ fs \in {f \in [Targets -> {"absent", "old"}] :
                 \A t \in Targets : f[t] = "old" =>
                    \E i \in 1..Len(collection) :
                        resolve(get_export_path(OutputDir, collection[i]).path) = t}
    /\ fs0 = fs
    /\ bodyErr = NoErr /\ ret = None
    /\ PathIdle /\ AddrIdle /\ SendIdle /\ RerunIdle /\ TwoIdle /\ MoreIdle

\* the body returns Err(e): the fut branch of the select! completes
BodyFails(e) ==
    /\ pc' = "done" /\ bodyErr' = e
    /\ sel' = "fut_err" /\ branch' = "fut"

\* the body returns Ok: the fut branch of the select! completes
BodySucceeds ==
    /\ pc' = "done" /\ bodyErr' = bodyErr
    /\ sel' = "fut_ok" /\ branch' = "fut"

\* the body goes on to its next suspension point
BodyGoes(p) == pc' = p /\ UNCHANGED <<bodyErr, sel, branch>>

\* BlobTicket::from_str and prepare_env
Prepare ==
    /\ sel = "prepare"
    /\ \E r \in {"ok", "ticket", "bind", "load"} :
          IF r = "ok"
          THEN /\ tempDir' = TRUE
               /\ sel' = "polling"
               /\ ret' = ret
          ELSE /\ tempDir' \in (IF r = "load" THEN {tempDir, TRUE} ELSE {tempDir})
               /\ sel' = "returned"
               /\ ret' = Err(<<"prepare", r>>)
    /\ UNCHANGED <<pc, sig, branch, store, events, connects, gets, payload_size,
                   total_files, loaded, exportIdx, fs, bodyErr>>
    /\ UNCHANGED <<sessionInputs, gsVars, streamVars, otherSpecs>>

\* ctrl-c arrives while the select! is pending
Signal ==
    /\ sel = "polling" /\ ~sig
    /\ sig' = TRUE
    /\ UNCHANGED <<sel, pc, branch, tempDir, store, events, connects, gets,
                   payload_size, total_files, loaded, exportIdx, fs, bodyErr, ret>>
    /\ UNCHANGED <<sessionInputs, gsVars, streamVars, otherSpecs>>

\* the ctrl_c branch of the select! completes; the body is dropped
SelectCtrlC ==
    /\ sel = "polling" /\ sig
    /\ sel' = "ctrl_c" /\ branch' = "ctrl_c"
    /\ UNCHANGED <<pc, sig, tempDir, store, events, connects, gets,
                   payload_size, total_files, loaded, exportIdx, fs, bodyErr, ret>>
    /\ UNCHANGED <<sessionInputs, gsVars, streamVars, otherSpecs>>

\* ctrl_c arm: db2.shutdown().await?; bail!("Operation cancelled")
CancelArm ==
    /\ sel = "ctrl_c"
    /\ \E shutdownOk \in BOOLEAN :
          ret' = IF shutdownOk THEN Err(<<"Operation cancelled">>)
                 ELSE Err(<<"shutdown">>)
    /\ sel' = "returned"
    /\ UNCHANGED <<pc, sig, branch, tempDir, store, events, connects, gets,
                   payload_size, total_files, loaded, exportIdx, fs, bodyErr>>
    /\ UNCHANGED <<sessionInputs, gsVars, streamVars, otherSpecs>>

FailArmCleans ==
    /\ sel = "fut_err"
    /\ \E shutdownOk \in BOOLEAN :
          ret' = IF shutdownOk THEN Err(<<"error", bodyErr>>)
                 ELSE Err(<<"shutdown">>)
    /\ sel' = "returned"
    /\ tempDir' = FALSE /\ store' = "empty"
    /\ UNCHANGED <<pc, sig, branch, events, connects, gets,
                   payload_size, total_files, loaded, exportIdx, fs, bodyErr>>
    /\ UNCHANGED <<sessionInputs, gsVars, streamVars, otherSpecs>>

\* fut arm, Err(e): db2.shutdown().await?; bail!("error: {e}")
FailArm ==
    /\ sel = "fut_err"
    /\ \E shutdownOk \in BOOLEAN :
          ret' = IF shutdownOk THEN Err(<<"error", bodyErr>>)
                 ELSE Err(<<"shutdown">>)
    /\ sel' = "returned"
    /\ UNCHANGED <<pc, sig, branch, tempDir, store, events, connects, gets,
                   payload_size, total_files, loaded, exportIdx, fs, bodyErr>>
    /\ UNCHANGED <<sessionInputs, gsVars, streamVars, otherSpecs>>

\* fut arm, Ok: remove_dir_all(&iroh_data_dir).await?; Ok(ReceiveResult)
SuccessArm ==
    /\ sel = "fut_ok"
    /\ \E removeOk \in BOOLEAN :
          IF removeOk
          THEN /\ tempDir' = FALSE /\ store' = "empty"
               /\ ret' = Ok(total_files, payload_size)
          ELSE /\ UNCHANGED <<tempDir, store>>
               /\ ret' = Err(<<"io">>)
    /\ sel' = "returned"
    /\ UNCHANGED <<pc, sig, branch, events, connects, gets,
                   payload_size, total_files, loaded, exportIdx, fs, bodyErr>>
    /\ UNCHANGED <<sessionInputs, gsVars, streamVars, otherSpecs>>

\* what the store answers for the ticket's hash: a complete hash sequence
\* has the metadata blob and one child per entry
LocalInfo(st, coll) ==
    [is_complete |-> st = "complete",
     children |-> IF st = "complete" THEN Len(coll) + 1 ELSE 0]

NeedsNetworkAlways(l) == TRUE

\* fut: if !local.is_complete()
NeedsNetwork(l) == ~l.is_complete

\* fut: db.remote().local(hash_and_format).await? and the branch on is_complete
LocalQuery ==
    /\ sel = "polling" /\ pc = "local"
    /\ \E queryOk \in BOOLEAN :
          IF ~queryOk
          THEN /\ BodyFails(<<"local">>)
               /\ UNCHANGED <<events, total_files, local>>
          ELSE /\ local' = Some(LocalInfo(store, collection))
               /\ IF NeedsNetwork(LocalInfo(store, collection))
                  THEN /\ events' = emit_event(app, events, Started)
                       /\ BodyGoes("gs_connect")
                       /\ UNCHANGED total_files
                  ELSE /\ total_files' = LocalInfo(store, collection).children - 1
                       /\ events' = emit_event(app, emit_event(app, events, Started),
                                               Completed)
                       /\ BodyGoes("load")
    /\ UNCHANGED <<sig, tempDir, store, connects, gets, payload_size,
                   loaded, exportIdx, fs, ret>>
    /\ UNCHANGED <<sessionInputs, attempt, attemptLog, last_err, sizes_opt,
                   connection, waits, streamVars, otherSpecs>>

GsConnectRetries ==
    /\ sel = "polling" /\ pc = "gs_connect"
    /\ connects' = connects + 1
    /\ \E connectOk \in BOOLEAN :
          IF connectOk
          THEN /\ connection' = connects + 1
               /\ attempt' = 1
               /\ BodyGoes("gs_request")
          ELSE /\ IF connects = 0
                  THEN BodyGoes("gs_connect")
                  ELSE BodyFails(<<"connect">>)
               /\ UNCHANGED <<connection, attempt>>
    /\ UNCHANGED <<attemptLog, last_err, sizes_opt, waits, local>>
    /\ UNCHANGED <<sig, tempDir, store, events, gets, payload_size, total_files,
                   loaded, exportIdx, fs, ret>>
    /\ UNCHANGED <<sessionInputs, streamVars, otherSpecs>>

\* get_sizes_with_retries: the first endpoint.connect(..).await?
GsConnect ==
    /\ sel = "polling" /\ pc = "gs_connect"
    /\ connects' = connects + 1
    /\ \E connectOk \in BOOLEAN :
          IF connectOk
          THEN /\ connection' = connects + 1
               /\ attempt' = 1
               /\ BodyGoes("gs_request")
          ELSE /\ BodyFails(<<"connect">>)
               /\ UNCHANGED <<connection, attempt>>
    /\ UNCHANGED <<attemptLog, last_err, sizes_opt, waits, local>>
    /\ UNCHANGED <<sig, tempDir, store, events, gets, payload_size, total_files,
                   loaded, exportIdx, fs, ret>>
    /\ UNCHANGED <<sessionInputs, streamVars, otherSpecs>>

RetryLimitMore == 3 + 1

\* get_sizes_with_retries: for attempt in 1..=3, if attempt < 3
RetryLimit == 3

KeepFirstErr(old, e) == IF old = None THEN Some(e) ELSE old

\* last_err = Some(e)
NextLastErr(old, e) == Some(e)

\* get_sizes_with_retries: one get_hash_seq_and_sizes call of the loop; on Ok
\* the function returns and download computes the sizes and emits Progress 0
GsRequest ==
    /\ sel = "polling" /\ pc = "gs_request"
    /\ \E r \in [ok : {TRUE}, sizes : SizeLists] \cup [ok : {FALSE}, e : GetErrors] :
          /\ attemptLog' = Append(attemptLog,
                                  [attempt |-> attempt, conn |-> connection, res |-> r])
          /\ IF r.ok
             THEN /\ sizes_opt' = Some(r.sizes)
                  /\ payload_size' = Sum(skip1(r.sizes))
                  /\ total_files' = saturating_sub1(Len(r.sizes))
                  /\ events' = emit_event(app, events, Progress(0, Sum(skip1(r.sizes))))
                  /\ BodyGoes("dl_connect")
                  /\ UNCHANGED last_err
             ELSE /\ last_err' = NextLastErr(last_err, GetError(r.e, attempt))
                  /\ UNCHANGED <<sizes_opt, payload_size, total_files, events>>
                  /\ IF attempt < RetryLimit
                     THEN BodyGoes("gs_backoff")
                     ELSE BodyFails(NextLastErr(last_err, GetError(r.e, attempt)).v)
    /\ UNCHANGED <<attempt, connection, waits, local>>
    /\ UNCHANGED <<sig, tempDir, store, connects, gets, loaded, exportIdx, fs, ret>>
    /\ UNCHANGED <<sessionInputs, streamVars, otherSpecs>>

backoff_flat(n) == 250 * 1

\* get_sizes_with_retries: Duration::from_millis(250 * attempt as u64)
backoff(n) == 250 * n

\* get_sizes_with_retries: tokio::time::sleep(backoff).await
GsBackoff ==
    /\ sel = "polling" /\ pc = "gs_backoff"
    /\ waits' = Append(waits, backoff(attempt))
    /\ BodyGoes("gs_reconnect")
    /\ UNCHANGED <<attempt, attemptLog, last_err, sizes_opt, connection, local>>
    /\ UNCHANGED <<sig, tempDir, store, events, connects, gets, payload_size,
                   total_files, loaded, exportIdx, fs, ret>>
    /\ UNCHANGED <<sessionInputs, streamVars, otherSpecs>>

\* get_sizes_with_retries: the reconnect before the next attempt, then continue
GsReconnect ==
    /\ sel = "polling" /\ pc = "gs_reconnect"
    /\ connects' = connects + 1
    /\ \E connectOk \in BOOLEAN :
          connection' = IF connectOk THEN connects + 1 ELSE connection
    /\ attempt' = attempt + 1
    /\ BodyGoes("gs_request")
    /\ UNCHANGED <<attemptLog, last_err, sizes_opt, waits, local>>
    /\ UNCHANGED <<sig, tempDir, store, events, gets, payload_size, total_files,
                   loaded, exportIdx, fs, ret>>
    /\ UNCHANGED <<sessionInputs, streamVars, otherSpecs>>

\* fut: endpoint.connect(..).await? for the retrieval, then execute_get
DlConnect ==
    /\ sel = "polling" /\ pc = "dl_connect"
    /\ connects' = connects + 1
    /\ \E connectOk \in BOOLEAN :
          IF connectOk
          THEN /\ gets' = gets + 1
               /\ last_log_offset' = 0
               /\ BodyGoes("stream")
          ELSE /\ BodyFails(<<"connect">>)
               /\ UNCHANGED <<gets, last_log_offset>>
    /\ UNCHANGED <<streamPos, streamDone>>
    /\ UNCHANGED <<sig, tempDir, store, events, payload_size, total_files,
                   loaded, exportIdx, fs, ret>>
    /\ UNCHANGED <<sessionInputs, gsVars, otherSpecs>>

ProgressThreshold == 1000000

\* process_get_stream: GetProgressItem::Progress(offset); the offsets count
\* the bytes streamed so far, of the metadata and of the files
StreamProgress ==
    /\ sel = "polling" /\ pc = "stream"
    /\ \E offset \in Offsets :
          /\ offset > streamPos
          /\ offset <= Sum(sizes_opt.v)
          /\ streamPos' = offset
          /\ IF offset - last_log_offset > ProgressThreshold
             THEN /\ last_log_offset' = offset
                  /\ events' = emit_event(app, events, Progress(offset, payload_size))
             ELSE UNCHANGED <<last_log_offset, events>>
    /\ store' = IF store = "empty" THEN "partial" ELSE store
    /\ UNCHANGED streamDone
    /\ BodyGoes("stream")
    /\ UNCHANGED <<sig, tempDir, connects, gets, payload_size, total_files,
                   loaded, exportIdx, fs, ret>>
    /\ UNCHANGED <<sessionInputs, gsVars, otherSpecs>>

\* process_get_stream: GetProgressItem::Done(stats)
StreamDone ==
    /\ sel = "polling" /\ pc = "stream"
    /\ events' = emit_event(app, events, Progress(payload_size, payload_size))
    /\ store' = "complete"
    /\ streamDone' = TRUE
    /\ BodyGoes("load")
    /\ UNCHANGED <<sig, tempDir, connects, gets, payload_size, total_files,
                   loaded, exportIdx, fs, ret>>
    /\ UNCHANGED <<sessionInputs, gsVars, last_log_offset, streamPos, otherSpecs>>

StreamErrorRetries ==
    /\ sel = "polling" /\ pc = "stream"
    /\ \E cause \in GetErrors :
          IF gets < 2
          THEN gets' = gets + 1 /\ BodyGoes("stream")
          ELSE BodyFails(GetError(cause, 0)) /\ UNCHANGED gets
    /\ UNCHANGED <<sig, tempDir, store, events, connects, payload_size,
                   total_files, loaded, exportIdx, fs, ret>>
    /\ UNCHANGED <<sessionInputs, gsVars, streamVars, otherSpecs>>

\* process_get_stream: GetProgressItem::Error(cause)
StreamError ==
    /\ sel = "polling" /\ pc = "stream"
    /\ \E cause \in GetErrors : BodyFails(GetError(cause, 0))
    /\ UNCHANGED <<sig, tempDir, store, events, connects, gets, payload_size,
                   total_files, loaded, exportIdx, fs, ret>>
    /\ UNCHANGED <<sessionInputs, gsVars, streamVars, otherSpecs>>

\* process_get_stream: the stream ends (next() is None) without a Done item
StreamEnd ==
    /\ sel = "polling" /\ pc = "stream"
    /\ BodyGoes("load")
    /\ UNCHANGED <<sig, tempDir, store, events, connects, gets, payload_size,
                   total_files, loaded, exportIdx, fs, ret>>
    /\ UNCHANGED <<sessionInputs, gsVars, streamVars, otherSpecs>>

\* export has returned Ok: fut emits Completed and returns Ok
ExportReturns(log) ==
    /\ events' = emit_event(app, log, Completed)
    /\ BodySucceeds

\* fut: Collection::load(..).await?, the FileNames event, and export of an
\* empty collection
Load ==
    /\ sel = "polling" /\ pc = "load"
    /\ \E loadOk \in BOOLEAN :
          IF ~loadOk \/ store = "empty"
          THEN /\ BodyFails(<<"load">>)
               /\ UNCHANGED <<events, loaded, exportIdx>>
          ELSE LET log == IF collection # <<>>
                          THEN emit_event(app, events, FileNames(collection))
                          ELSE events
               IN  /\ loaded' = TRUE
                   /\ exportIdx' = 1
                   /\ IF collection = <<>>
                      THEN ExportReturns(log)
                      ELSE events' = log /\ BodyGoes("export")
    /\ UNCHANGED <<sig, tempDir, store, connects, gets, payload_size, total_files,
                   fs, ret>>
    /\ UNCHANGED <<sessionInputs, gsVars, streamVars, otherSpecs>>

TargetExistsNever(files, target) == FALSE

\* export: target.exists()
TargetExists(files, target) == files[resolve(target)] # "absent"

\* export: one iteration of the loop over the collection
ExportEntry ==
    /\ sel = "polling" /\ pc = "export"
    /\ exportIdx <= Len(collection)
    /\ LET target == get_export_path(OutputDir, collection[exportIdx])
       IN  IF ~target.ok
           THEN /\ BodyFails(<<"path", exportIdx>>)
                /\ UNCHANGED <<fs, exportIdx, events>>
           ELSE IF TargetExists(fs, target.path)
           THEN /\ BodyFails(<<"conflict", exportIdx>>)
                /\ UNCHANGED <<fs, exportIdx, events>>
           ELSE \E item \in {"Done", "Error"} :
                  IF item = "Error"
                  THEN /\ \E left \in {"absent", "partial"} :
                             fs' = [fs EXCEPT ![resolve(target.path)] = left]
                       /\ BodyFails(<<"export", exportIdx>>)
                       /\ UNCHANGED <<exportIdx, events>>
                  ELSE /\ fs' = [fs EXCEPT ![resolve(target.path)] = "new"]
                       /\ exportIdx' = exportIdx + 1
                       /\ IF exportIdx = Len(collection)
                          THEN ExportReturns(events)
                          ELSE BodyGoes("export") /\ UNCHANGED events
    /\ UNCHANGED <<sig, tempDir, store, connects, gets, payload_size, total_files,
                   loaded, ret>>
    /\ UNCHANGED <<sessionInputs, gsVars, streamVars, otherSpecs>>

Next ==
    \/ Prepare \/ Signal \/ SelectCtrlC \/ CancelArm \/ FailArm \/ SuccessArm
    \/ LocalQuery \/ GsConnect \/ GsRequest \/ GsBackoff \/ GsReconnect
    \/ DlConnect \/ StreamProgress \/ StreamDone \/ StreamError \/ StreamEnd
    \/ Load \/ ExportEntry

Spec == Init /\ [][Next]_vars

(***************************************************************************)
(* A second receive of the same ticket                                     *)
(***************************************************************************)
\* download is called again with the same ticket and output directory after
\* an export has failed: prepare_env names the working directory after the
\* ticket's hash, so the run finds whatever the earlier run left there, and
\* the output directory as that run left it
Rerun ==
    /\ sel = "returned" /\ prevRun = None
    /\ branch = "fut" /\ bodyErr[1] \in {"conflict", "export"}
    /\ prevRun' = Some([err |-> bodyErr, gets |-> gets, streamDone |-> streamDone])
    /\ sel' = "prepare" /\ pc' = "local" /\ sig' = FALSE /\ branch' = "none"
    /\ local' = None /\ events' = <<>>
    /\ attempt' = 0 /\ attemptLog' = <<>> /\ last_err' = None /\ sizes_opt' = None
    /\ connection' = 0 /\ connects' = 0 /\ waits' = <<>> /\ gets' = 0
    /\ payload_size' = 0 /\ total_files' = 0 /\ last_log_offset' = 0
    /\ streamPos' = 0 /\ streamDone' = FALSE /\ loaded' = FALSE /\ exportIdx' = 0
    /\ fs0' = fs /\ bodyErr' = NoErr /\ ret' = None
    /\ UNCHANGED <<tempDir, store, app, collection, fs>>
    /\ UNCHANGED <<pathVars, addrVars, sendVars, twoVars, moreVars>>

NextRerun == Next \/ Rerun

SpecRerun == Init /\ [][NextRerun]_vars

(***************************************************************************)
(* core/receive.rs: two download calls running at the same time            *)
(***************************************************************************)
Sessions == {1, 2}

\* the root hashes of the tickets
Hashes == {"h1", "h2"}

\* prepare_env: temp_dir().join(format!(".sendmer-recv-{}", ticket.hash().to_hex()))
iroh_data_dir(hash) == <<".sendmer-recv-", hash>>

notTwo == <<sessionVars, pathVars, addrVars, sendVars, rerunVars, moreVars>>

InitTwo ==
    /\ SessionIdle /\ PathIdle /\ AddrIdle /\ SendIdle /\ RerunIdle /\ MoreIdle
    /\ twoTicket \in [Sessions -> Hashes]
    /\ twoPc = [s \in Sessions |-> "prepare"]
    /\ twoDir = [s \in Sessions |-> None]
    \* directories that earlier sessions left behind
    /\ tmpDirs \in SUBSET {iroh_data_dir(h) : h \in Hashes}
    /\ twoRet = [s \in Sessions |-> None]

\* download: BlobTicket::from_str and prepare_env.  FsStore::load creates the
\* directory when it is missing; whether it refuses a directory that another
\* store has open is the store library's matter: it can fail at any time
TwoPrepare(s) ==
    /\ twoPc[s] = "prepare"
    /\ LET dir == iroh_data_dir(twoTicket[s])
       IN  \E r \in {"ok", "ticket", "bind", "load"} :
              IF r = "ok"
              THEN /\ twoDir' = [twoDir EXCEPT ![s] = Some(dir)]
                   /\ tmpDirs' = tmpDirs \cup {dir}
                   /\ twoPc' = [twoPc EXCEPT ![s] = "running"]
                   /\ twoRet' = twoRet
              ELSE /\ twoDir' = twoDir
                   /\ tmpDirs' \in (IF r = "load" THEN {tmpDirs, tmpDirs \cup {dir}}
                                    ELSE {tmpDirs})
                   /\ twoPc' = [twoPc EXCEPT ![s] = "returned"]
                   /\ twoRet' = [twoRet EXCEPT ![s] = Err(<<"prepare", r>>)]
    /\ UNCHANGED twoTicket
    /\ UNCHANGED notTwo

\* download: the select! over the receive body and ctrl-c, with the store
\* shutdown of the two failure arms
TwoBody(s) ==
    /\ twoPc[s] = "running"
    /\ \E r \in {"ok", "error", "Operation cancelled"}, shutdownOk \in BOOLEAN :
          IF r = "ok"
          THEN /\ shutdownOk
               /\ twoPc' = [twoPc EXCEPT ![s] = "remove"]
               /\ twoRet' = twoRet
          ELSE /\ twoPc' = [twoPc EXCEPT ![s] = "returned"]
               /\ twoRet' = [twoRet EXCEPT ![s] =
                                IF shutdownOk THEN Err(<<r>>) ELSE Err(<<"shutdown">>)]
    /\ UNCHANGED <<twoTicket, twoDir, tmpDirs>>
    /\ UNCHANGED notTwo

\* download: tokio::fs::remove_dir_all(&iroh_data_dir).await?, then Ok
TwoRemove(s) ==
    /\ twoPc[s] = "remove"
    /\ \E removeOk \in BOOLEAN :
          IF removeOk /\ twoDir[s].v \in tmpDirs
          THEN /\ tmpDirs' = tmpDirs \ {twoDir[s].v}
               /\ twoRet' = [twoRet EXCEPT ![s] = [ok |-> TRUE]]
          ELSE /\ tmpDirs' = tmpDirs
               /\ twoRet' = [twoRet EXCEPT ![s] = Err(<<"io">>)]
    /\ twoPc' = [twoPc EXCEPT ![s] = "returned"]
    /\ UNCHANGED <<twoTicket, twoDir>>
    /\ UNCHANGED notTwo

NextTwo == \E s \in Sessions : TwoPrepare(s) \/ TwoBody(s) \/ TwoRemove(s)

SpecTwo == InitTwo /\ [][NextTwo]_vars

(***************************************************************************)
(* The name <-> path mappings on their own                                 *)
(***************************************************************************)
InitPath ==
    /\ SessionIdle /\ AddrIdle /\ SendIdle /\ RerunIdle /\ TwoIdle /\ MoreIdle
    /\ pname \in StringsUpTo(MaxNameLen)
    /\ exportRes = None /\ importRes = None

\* receive side: get_export_path(output_dir, name)
ExportPath ==
    /\ exportRes = None
    /\ exportRes' = Some(get_export_path(OutputDir, pname))
    /\ UNCHANGED <<pname, importRes, sessionVars, addrVars, sendVars, rerunVars, twoVars, moreVars>>

\* send side: canonicalized_path_to_string(path, must_be_relative)
ImportName ==
    /\ importRes = None
    /\ \E must_be_relative \in BOOLEAN :
          importRes' = Some([must_be_relative |-> must_be_relative,
                             res |-> canonicalized_path_to_string(pname, must_be_relative)])
    /\ UNCHANGED <<pname, exportRes, sessionVars, addrVars, sendVars, rerunVars, twoVars, moreVars>>

NextPath == ExportPath \/ ImportName

SpecPath == InitPath /\ [][NextPath]_vars

(***************************************************************************)
(* apply_options on its own                                                *)
(***************************************************************************)
InitAddr ==
    /\ SessionIdle /\ PathIdle /\ SendIdle /\ RerunIdle /\ TwoIdle /\ MoreIdle
    /\ addr0 \in [id : {"endpoint"}, addrs : SUBSET TransportAddr]
    /\ addr = addr0
    /\ opts \in AddrInfoOptions
    /\ applied = <<>>

\* core/common.rs: apply_options(&mut addr, opts)
ApplyOptions ==
    /\ Len(applied) < MaxApply
    /\ addr' = apply_options(addr, opts)
    /\ applied' = Append(applied, "core/common")
    /\ UNCHANGED <<addr0, opts, sessionVars, pathVars, sendVars, rerunVars, twoVars, moreVars>>

\* core/types.rs: apply_options(&mut addr, opts)
TypesApplyOptions ==
    /\ Len(applied) < MaxApply
    /\ addr' = types_apply_options(addr, opts)
    /\ applied' = Append(applied, "core/types")
    /\ UNCHANGED <<addr0, opts, sessionVars, pathVars, sendVars, rerunVars, twoVars, moreVars>>

NextAddr == ApplyOptions \/ TypesApplyOptions

SpecAddr == InitAddr /\ [][NextAddr]_vars

(***************************************************************************)
(* core/send.rs: send and import                                           *)
(***************************************************************************)
MaxFiles == 3          \* most files in a directory given to send
MaxCpus == 2           \* largest processor count

notSend == <<sessionVars, pathVars, addrVars, rerunVars, twoVars, moreVars>>
importVars == <<data_sources, workers, finished, import_result>>

\* the byte values of the characters: the order of str::cmp
CharCode(c) ==
    CASE c = "." -> 46
      [] c = "/" -> 47
      [] c = "\\" -> 92
      [] c = "a" -> 97
      [] c = "b" -> 98
      [] c = "d" -> 100
      [] c = "s" -> 115

\* a.cmp(b) == Ordering::Less
RECURSIVE str_lt(_, _)
str_lt(a, b) ==
    IF Len(b) = 0 THEN FALSE
    ELSE IF Len(a) = 0 THEN TRUE
    ELSE IF a[1] # b[1] THEN CharCode(a[1]) < CharCode(b[1])
    ELSE str_lt(Tail(a), Tail(b))

sort_by_nothing(v) == v

\* names_and_tags.sort_by(|(a, _, _), (b, _, _)| a.cmp(b)): stable
RECURSIVE sort_by_name(_)
sort_by_name(v) ==
    IF Len(v) <= 1 THEN v
    ELSE LET rest == sort_by_name(SubSeq(v, 1, Len(v) - 1))
             x == v[Len(v)]
             k == Cardinality({j \in 1..Len(rest) : ~str_lt(x.name, rest[j].name)})
         IN  SubSeq(rest, 1, k) \o <<x>> \o SubSeq(rest, k + 1, Len(rest))

\* a regular file: its path relative to the parent of the path given to
\* send, and its bytes
File(path, bytes) == [path |-> path, bytes |-> bytes]

\* the regular files a directory "d" can hold: d/a, d/b, d/s/a and d/\
DirFiles ==
    {File(<<"d", "/", "a">>, "A"), File(<<"d", "/", "b">>, "B"),
     File(<<"d", "/", "s", "/", "a">>, "C"), File(<<"d", "/", "\\">>, "D")}

\* what the path given to send can name: a regular file (a or \), or a
\* directory d
Trees ==
    {[kind |-> "file", files |-> {f}] : f \in {File(<<"a">>, "A"), File(<<"\\">>, "D")}}
    \cup {[kind |-> "dir", files |-> S] :
             S \in {S \in SUBSET DirFiles : Cardinality(S) <= MaxFiles}}

\* the orders in which WalkDir can yield the files
RECURSIVE Orders(_)
Orders(S) ==
    IF S = {} THEN {<<>>}
    ELSE UNION {{<<x>> \o o : o \in Orders(S \ {x})} : x \in S}

\* the hash of a blob, and the blob a hash names
HashOf(bytes) == <<"blake3", bytes>>
BlobOf(hash) == hash[2]

\* the hash of a stored collection (a hash sequence with its metadata)
HashSeqOf(c) == <<"hashseq", c>>

Exit(code) == [exit |-> code]
SendOk == [ok |-> TRUE]

\* the address router.endpoint().addr() answers with
EndpointAddr == [id |-> "endpoint", addrs |-> TransportAddr]

BlobTicket_new_raw(a, hash) == [addr |-> a, hash |-> hash, format |-> "Raw"]

\* BlobTicket::new(addr, hash, BlobFormat::HashSeq)
BlobTicket_new(a, hash) == [addr |-> a, hash |-> hash, format |-> "HashSeq"]

\* RelayMode: Disabled, or one with relay servers (Default, Staging, Custom)
RelayModes == {"Disabled", "Default"}

InitSend ==
    /\ SessionIdle /\ PathIdle /\ AddrIdle /\ RerunIdle /\ TwoIdle /\ MoreIdle
    /\ tree \in Trees
    /\ parallelism \in 1..MaxCpus
    /\ relay_mode \in RelayModes
    /\ spc = "start" /\ blobs_data_dir = FALSE /\ sendRet = None
    /\ data_sources = <<>> /\ workers = <<>> /\ finished = <<>>
    /\ import_result = None /\ db = {} /\ ticket = None /\ exported = None

\* send returns Err(e)
SendFails(e) == spc' = "returned" /\ sendRet' = Err(e)

\* send: the secret key, the working directory's name and the checks on the
\* path, before setup
SendStart ==
    /\ spc = "start"
    /\ \E r \in {"ok", "secret", "cwd", "same"} :
          CASE r = "ok" -> spc' = "mkdir" /\ UNCHANGED sendRet
            [] r = "same" -> spc' = "exited" /\ sendRet' = Exit(1)
            [] OTHER -> SendFails(<<"io", r>>)
    /\ UNCHANGED <<tree, parallelism, relay_mode, blobs_data_dir, importVars, db, ticket, exported>>
    /\ UNCHANGED notSend

\* setup: tokio::fs::create_dir_all(&blobs_data_dir2).await?
SetupMkdir ==
    /\ spc = "mkdir"
    /\ \E mkdirOk \in BOOLEAN :
          IF mkdirOk
          THEN blobs_data_dir' = TRUE /\ spc' = "bind" /\ UNCHANGED sendRet
          ELSE blobs_data_dir' = FALSE /\ SendFails(<<"io", "create_dir_all">>)
    /\ UNCHANGED <<tree, parallelism, relay_mode, importVars, db, ticket, exported>>
    /\ UNCHANGED notSend

\* setup: builder.bind().await?
SetupBind ==
    /\ spc = "bind"
    /\ \E bindOk \in BOOLEAN :
          IF bindOk THEN spc' = "load" /\ UNCHANGED sendRet
          ELSE SendFails(<<"bind">>)
    /\ UNCHANGED <<tree, parallelism, relay_mode, blobs_data_dir, importVars, db, ticket, exported>>
    /\ UNCHANGED notSend

\* setup: FsStore::load(&blobs_data_dir2).await?
SetupLoad ==
    /\ spc = "load"
    /\ \E loadOk \in BOOLEAN :
          IF loadOk THEN spc' = "enumerate" /\ UNCHANGED sendRet
          ELSE SendFails(<<"load">>)
    /\ UNCHANGED <<tree, parallelism, relay_mode, blobs_data_dir, importVars, db, ticket, exported>>
    /\ UNCHANGED notSend

\* import returns Err(e): setup returns it and so does send
ImportFails(e) == import_result' = Some(Err(e)) /\ SendFails(e)

\* import: canonicalize, exists, parent, and the (name, path) pairs of the
\* regular files in the order WalkDir yields them
ImportEnumerate ==
    /\ spc = "enumerate"
    /\ \E r \in {"ok", "canonicalize", "walk"} :
          IF r # "ok"
          THEN ImportFails(<<"io", r>>) /\ UNCHANGED <<data_sources, workers>>
          ELSE \E order \in Orders(tree.files) :
                  LET name(i) == canonicalized_path_to_string(order[i].path, TRUE)
                      bad == {i \in 1..Len(order) : ~name(i).ok}
                  IN  IF bad # {}
                      THEN /\ ImportFails(<<"name", order[CHOOSE i \in bad :
                                              \A j \in bad : i <= j].path>>)
                           /\ UNCHANGED <<data_sources, workers>>
                      ELSE /\ data_sources' = [i \in 1..Len(order) |->
                                                 [name |-> name(i).str,
                                                  path |-> order[i].path]]
                           /\ workers' = [i \in 1..Len(order) |-> "queued"]
                           /\ spc' = "workers"
                           /\ UNCHANGED <<import_result, sendRet>>
    /\ UNCHANGED <<tree, parallelism, relay_mode, blobs_data_dir, finished, db, ticket, exported>>
    /\ UNCHANGED notSend

\* the bytes of the file at a path of the tree
BytesAt(path) == (CHOOSE f \in tree.files : f.path = path).bytes

InFlight == {i \in 1..Len(workers) : workers[i] = "running"}
Queued == {i \in 1..Len(workers) : workers[i] = "queued"}

has_capacity_always(in_flight, limit) == TRUE

\* buffered_unordered(n): a further future is polled only while fewer than n
\* are in flight
has_capacity(in_flight, limit) == in_flight < limit

\* buffered_unordered(parallelism): the next data source's import is started
\* when fewer than parallelism imports are in flight
ImportStart ==
    /\ spc = "workers"
    /\ Queued # {}
    /\ has_capacity(Cardinality(InFlight), parallelism)
    /\ LET i == CHOOSE i \in Queued : \A j \in Queued : i <= j
       IN  workers' = [workers EXCEPT ![i] = "running"]
    /\ UNCHANGED <<tree, parallelism, relay_mode, spc, blobs_data_dir, sendRet, data_sources,
                   finished, import_result, db, ticket, exported>>
    /\ UNCHANGED notSend

\* one import worker ends: with Done(tt), with Error(cause), or because its
\* stream ended without a tag
ImportFinish(i) ==
    /\ spc = "workers"
    /\ workers[i] = "running"
    /\ LET src == data_sources[i]
       IN  \E item \in {"Done", "Error", "None"} :
              IF item = "Done"
              THEN /\ workers' = [workers EXCEPT ![i] = "ok"]
                   /\ finished' = Append(finished,
                         [ok |-> TRUE, name |-> src.name,
                          tag |-> HashOf(BytesAt(src.path)), size |-> FileSize])
                   /\ db' = db \cup {HashOf(BytesAt(src.path))}
              ELSE /\ workers' = [workers EXCEPT ![i] = "err"]
                   /\ finished' = Append(finished,
                         [ok |-> FALSE, name |-> src.name,
                          err |-> <<"import", item, src.name>>])
                   /\ db' = db
    /\ UNCHANGED <<tree, parallelism, relay_mode, spc, blobs_data_dir, sendRet, data_sources,
                   import_result, ticket, exported>>
    /\ UNCHANGED notSend

CollectFailFast(w) ==
    \/ \A i \in 1..Len(w) : w[i] \in {"ok", "err"}
    \/ \E i \in 1..Len(w) : w[i] = "err"

\* .buffered_unordered(parallelism).collect::<Vec<_>>().await: the stream is
\* drained, every import has been started and has ended
CollectReady(w) == \A i \in 1..Len(w) : w[i] \in {"ok", "err"}

\* import: the results are collected; on Ok they are sorted by name, the
\* collection is built and stored, and import returns
ImportCollect ==
    /\ spc = "workers"
    /\ CollectReady(workers)
    /\ LET failed == {k \in 1..Len(finished) : ~finished[k].ok}
       IN  IF failed # {}
           THEN /\ ImportFails(finished[CHOOSE k \in failed : \A j \in failed : k <= j].err)
                /\ db' = db
           ELSE LET names_and_tags == sort_by_name(finished)
                    size == Sum([k \in 1..Len(names_and_tags) |-> names_and_tags[k].size])
                    collection_ == [k \in 1..Len(names_and_tags) |->
                                      [name |-> names_and_tags[k].name,
                                       hash |-> names_and_tags[k].tag]]
                IN  \E storeOk \in BOOLEAN :
                       IF storeOk
                       THEN /\ db' = db \cup {HashSeqOf(collection_)}
                            /\ import_result' =
                                  Some([ok |-> TRUE, temp_tag |-> HashSeqOf(collection_),
                                        size |-> size, collection |-> collection_])
                            /\ spc' = "online"
                            /\ UNCHANGED sendRet
                       ELSE ImportFails(<<"store">>) /\ db' = db
    /\ UNCHANGED <<tree, parallelism, relay_mode, blobs_data_dir, data_sources, workers, finished,
                   ticket, exported>>
    /\ UNCHANGED notSend

SetupOnlineGoesOn ==
    /\ spc = "online"
    /\ \E r \in IF relay_mode = "Disabled" THEN {"ready"} ELSE {"ready", "elapsed"} :
          IF r = "ready" THEN spc' = "ticket" /\ UNCHANGED sendRet
          ELSE spc' = "ticket" /\ sendRet' = Err(<<"elapsed", "online">>)
    /\ UNCHANGED <<tree, parallelism, relay_mode, blobs_data_dir, importVars, db, ticket, exported>>
    /\ UNCHANGED notSend

\* setup: the router is spawned; timeout(30 s, ep.online()) unless the relay
\* mode is Disabled, in which case the awaited future is ready at once
SetupOnline ==
    /\ spc = "online"
    /\ \E r \in IF relay_mode = "Disabled" THEN {"ready"} ELSE {"ready", "elapsed"} :
          IF r = "ready" THEN spc' = "ticket" /\ UNCHANGED sendRet
          ELSE SendFails(<<"elapsed", "online">>)
    /\ UNCHANGED <<tree, parallelism, relay_mode, blobs_data_dir, importVars, db, ticket, exported>>
    /\ UNCHANGED notSend

SetupPositions == {"mkdir", "bind", "load", "enumerate", "workers", "online"}

\* the select! around setup: ctrl-c arrives first, std::process::exit(130)
SetupCtrlC ==
    /\ spc \in SetupPositions
    /\ spc' = "exited" /\ sendRet' = Exit(130)
    /\ UNCHANGED <<tree, parallelism, relay_mode, blobs_data_dir, importVars, db, ticket, exported>>
    /\ UNCHANGED notSend

\* send: the ticket is made and printed
MakeTicket ==
    /\ spc = "ticket"
    /\ \E ticket_type \in AddrInfoOptions :
          ticket' = Some(BlobTicket_new(apply_options(EndpointAddr, ticket_type),
                                        import_result.v.temp_tag))
    /\ spc' = "serving"
    /\ UNCHANGED <<tree, parallelism, relay_mode, blobs_data_dir, sendRet, importVars, db, exported>>
    /\ UNCHANGED notSend

\* send: tokio::signal::ctrl_c().await? while the data is served
ServeCtrlC ==
    /\ spc = "serving"
    /\ \E signalOk \in BOOLEAN :
          IF signalOk THEN spc' = "shutdown" /\ UNCHANGED sendRet
          ELSE SendFails(<<"io", "ctrl_c">>)
    /\ UNCHANGED <<tree, parallelism, relay_mode, blobs_data_dir, importVars, db, ticket, exported>>
    /\ UNCHANGED notSend

\* send: drop(temp_tag); timeout(2 s, router.shutdown()).await??
RouterShutdown ==
    /\ spc = "shutdown"
    /\ \E r \in {"ok", "elapsed", "err"} :
          IF r = "ok" THEN spc' = "remove" /\ UNCHANGED sendRet
          ELSE SendFails(<<r, "shutdown">>)
    /\ UNCHANGED <<tree, parallelism, relay_mode, blobs_data_dir, importVars, db, ticket, exported>>
    /\ UNCHANGED notSend

\* send: tokio::fs::remove_dir_all(blobs_data_dir).await?, then Ok(())
RemoveDir ==
    /\ spc = "remove"
    /\ \E removeOk \in BOOLEAN :
          IF removeOk
          THEN /\ blobs_data_dir' = FALSE /\ db' = {}
               /\ spc' = "returned" /\ sendRet' = SendOk
          ELSE /\ UNCHANGED <<blobs_data_dir, db>>
               /\ SendFails(<<"io", "remove_dir_all">>)
    /\ UNCHANGED <<tree, parallelism, relay_mode, importVars, ticket, exported>>
    /\ UNCHANGED notSend

export_nothing(coll, i, files, fault) == [ok |-> TRUE, files |-> files]

\* core/receive.rs export, the whole loop from entry i on: files is the
\* output directory, fault the entry whose export stream yields Error (0 for
\* none)
RECURSIVE export(_, _, _, _)
export(coll, i, files, fault) ==
    IF i > Len(coll) THEN [ok |-> TRUE, files |-> files]
    ELSE LET target == get_export_path(OutputDir, coll[i].name)
         IN  IF ~target.ok \/ TargetExists(files, target.path) \/ fault = i
             THEN [ok |-> FALSE, files |-> files]
             ELSE export(coll, i + 1,
                         [files EXCEPT ![resolve(target.path)] = BlobOf(coll[i].hash)],
                         fault)

\* the files an export of coll can touch, none of them there: an empty
\* output directory
EmptyOutput(coll) ==
    [t \in {resolve(get_export_path(OutputDir, coll[i].name).path) :
               i \in 1..Len(coll)} |-> "absent"]

\* while the sender serves, a receiver that has fetched the collection
\* exports it into an empty output directory
ExportImported ==
    /\ spc = "serving"
    /\ exported = None
    /\ LET coll == import_result.v.collection
       IN  \E fault \in 0..Len(coll) :
              exported' = Some(export(coll, 1, EmptyOutput(coll), fault))
    /\ UNCHANGED <<tree, parallelism, relay_mode, spc, blobs_data_dir, sendRet, importVars, db,
                   ticket>>
    /\ UNCHANGED notSend

NextSend ==
    \/ SendStart \/ SetupMkdir \/ SetupBind \/ SetupLoad \/ ImportEnumerate
    \/ ImportStart \/ (\E i \in 1..Len(workers) : ImportFinish(i)) \/ ImportCollect
    \/ SetupOnline \/ SetupCtrlC \/ MakeTicket \/ ServeCtrlC \/ RouterShutdown
    \/ RemoveDir \/ ExportImported

SpecSend == InitSend /\ [][NextSend]_vars

(***************************************************************************)
(* core/send.rs: the item loop of one import worker                        *)
(***************************************************************************)
MaxItems == 3          \* longest import stream of SpecItems

\* AddProgressItem: the sizes and tags the store may report
ItemSizes == {MetaSize, FileSize}
ItemTags == {"t1", "t2"}
AddProgressItem ==
    [kind : {"Size"}, size : ItemSizes]
        \cup [kind : {"CopyProgress", "CopyDone", "OutboardProgress"}]
        \cup [kind : {"Error"}, cause : {"io"}]
        \cup [kind : {"Done"}, tt : ItemTags]

RECURSIVE ItemStreams(_)
ItemStreams(n) ==
    IF n = 0 THEN {<<>>}
    ELSE LET shorter == ItemStreams(n - 1)
         IN  shorter \cup {Append(s, i) : s \in shorter, i \in AddProgressItem}

InitItems ==
    /\ SessionIdle /\ PathIdle /\ AddrIdle /\ SendIdle /\ RerunIdle /\ TwoIdle
    /\ ProgIdle /\ CliIdle
    /\ items \in ItemStreams(MaxItems)
    /\ itemPos = 0 /\ item_size = 0 /\ itemRes = None

\* the loop is at stream.next().await and the stream has a further item
ItemAt(kind) ==
    /\ itemRes = None
    /\ itemPos < Len(items)
    /\ items[itemPos + 1].kind = kind

keep_first_size(old, size) == IF old = 0 THEN size ELSE old

\* AddProgressItem::Size(size) => item_size = size
set_item_size(old, size) == size

ItemSize ==
    /\ ItemAt("Size")
    /\ item_size' = set_item_size(item_size, items[itemPos + 1].size)
    /\ itemPos' = itemPos + 1
    /\ UNCHANGED <<items, itemRes, oldVars, progVars, cliVars>>

\* CopyProgress, CopyDone, OutboardProgress: only the progress bar changes
ItemProgress ==
    /\ \E kind \in {"CopyProgress", "CopyDone", "OutboardProgress"} : ItemAt(kind)
    /\ itemPos' = itemPos + 1
    /\ UNCHANGED <<items, item_size, itemRes, oldVars, progVars, cliVars>>

\* AddProgressItem::Error(cause) => bail!("error importing {name}: {cause}")
ItemError ==
    /\ ItemAt("Error")
    /\ itemPos' = itemPos + 1
    /\ itemRes' = Some(Err(<<"error importing", items[itemPos + 1].cause>>))
    /\ UNCHANGED <<items, item_size, oldVars, progVars, cliVars>>

\* AddProgressItem::Done(tt) => break tt; then Ok((name, temp_tag, item_size))
ItemDone ==
    /\ ItemAt("Done")
    /\ itemPos' = itemPos + 1
    /\ itemRes' = Some([ok |-> TRUE, temp_tag |-> items[itemPos + 1].tt,
                        item_size |-> item_size])
    /\ UNCHANGED <<items, item_size, oldVars, progVars, cliVars>>

\* stream.next() is None: .context("import stream ended without a tag")?
ItemEnd ==
    /\ itemRes = None
    /\ itemPos = Len(items)
    /\ itemRes' = Some(Err(<<"import stream ended without a tag">>))
    /\ UNCHANGED <<items, itemPos, item_size, oldVars, progVars, cliVars>>

NextItems == ItemSize \/ ItemProgress \/ ItemError \/ ItemDone \/ ItemEnd

SpecItems == InitItems /\ [][NextItems]_vars

(***************************************************************************)
(* core/progress.rs: show_provide_progress and per_request_progress        *)
(*                                                                         *)
(* The per-request futures live in the FuturesUnordered of                 *)
(* show_provide_progress: they run only while it is suspended in its loop  *)
(* or in its final drain, and a panic in one of them is a panic of         *)
(* show_provide_progress.  connections[c] is None when c is not in the     *)
(* map, else Some(the request ids that have an entry under c).             *)
(***************************************************************************)
MaxMsgs == 3           \* provider messages of one run
MaxUpdates == 1        \* updates one request's channel delivers

notProg == <<oldVars, itemVars, cliVars>>

InitProgress ==
    /\ SessionIdle /\ PathIdle /\ AddrIdle /\ SendIdle /\ RerunIdle /\ TwoIdle
    /\ ItemIdle /\ CliIdle
    /\ connections = [c \in ConnIds |-> None]
    /\ poisoned = FALSE
    /\ recvClosed = FALSE /\ msgCount = 0 /\ lastMsg = None
    /\ spp = "loop"
    /\ tasks = [t \in Pairs |-> NoTask]

\* connections.lock().unwrap() on a poisoned mutex: the future panics
Panics ==
    /\ spp' = "panicked"
    /\ UNCHANGED <<connections, tasks>>

\* the select! of the loop yields a provider message
Receives(msg) ==
    /\ spp = "loop" /\ ~recvClosed /\ msgCount < MaxMsgs
    /\ msgCount' = msgCount + 1
    /\ lastMsg' = Some(msg)
    /\ UNCHANGED <<poisoned, recvClosed>>

\* ProviderMessage::ClientConnectedNotify: insert(connection_id, no requests)
ClientConnectedNotify(c) ==
    /\ Receives(<<"ClientConnectedNotify", c>>)
    /\ IF poisoned THEN Panics
       ELSE /\ connections' = [connections EXCEPT ![c] = Some({})]
            /\ UNCHANGED <<spp, tasks>>
    /\ UNCHANGED notProg

\* ProviderMessage::ConnectionClosed: remove(connection_id), with its entries
ConnectionClosed(c) ==
    /\ Receives(<<"ConnectionClosed", c>>)
    /\ IF poisoned THEN Panics
       ELSE /\ connections' = [connections EXCEPT ![c] = None]
            /\ UNCHANGED <<spp, tasks>>
    /\ UNCHANGED notProg

\* ProviderMessage::GetRequestReceivedNotify: tasks.push(per_request_progress(..))
GetRequestReceivedNotify(c, r) ==
    /\ tasks[<<c, r>>].st = "none"
    /\ Receives(<<"GetRequestReceivedNotify", c, r>>)
    /\ tasks' = [tasks EXCEPT ![<<c, r>>].st = "pushed"]
    /\ UNCHANGED <<connections, spp>>
    /\ UNCHANGED notProg

\* any other ProviderMessage: `_ => {}`
OtherMessage ==
    /\ Receives(<<"Other">>)
    /\ UNCHANGED <<connections, spp, tasks>>
    /\ UNCHANGED notProg

\* the last sender of the provider channel is dropped
CloseProvider ==
    /\ spp \in {"loop", "panicked"} /\ ~recvClosed
    /\ recvClosed' = TRUE
    /\ UNCHANGED <<connections, poisoned, msgCount, lastMsg, spp, tasks>>
    /\ UNCHANGED notProg

\* recv.recv() yields None: break out of the loop
LoopBreak ==
    /\ spp = "loop" /\ recvClosed
    /\ spp' = "drain"
    /\ UNCHANGED <<connections, poisoned, recvClosed, msgCount, lastMsg, tasks>>
    /\ UNCHANGED notProg

\* show_provide_progress is suspended where it polls the request futures
Polling == spp \in {"loop", "drain"}

register_nothing(requests, r) == requests

\* connection.requests.insert(request_id, pb.clone())
register(requests, r) == requests \cup {r}

\* per_request_progress up to its first rx.recv().await: the entry is
\* registered under the connection, or the future returns when the
\* connection is not in the map
TaskStart(c, r) ==
    /\ Polling /\ tasks[<<c, r>>].st = "pushed"
    /\ IF poisoned THEN Panics
       ELSE IF connections[c] # None
       THEN /\ connections' = [connections EXCEPT ![c] = Some(register(connections[c].v, r))]
            /\ tasks' = [tasks EXCEPT ![<<c, r>>].st = "running",
                                      ![<<c, r>>].registered = TRUE]
            /\ UNCHANGED spp
       ELSE /\ tasks' = [tasks EXCEPT ![<<c, r>>].st = "ended"]
            /\ UNCHANGED <<connections, spp>>
    /\ UNCHANGED <<poisoned, recvClosed, msgCount, lastMsg>>
    /\ UNCHANGED notProg

\* rx.recv() yields an update
Updated(c, r) ==
    /\ Polling /\ tasks[<<c, r>>].st = "running"
    /\ ~tasks[<<c, r>>].rxClosed /\ tasks[<<c, r>>].updates < MaxUpdates

\* RequestUpdate::Started, RequestUpdate::Progress: only the bar changes
TaskProgress(c, r) ==
    /\ Updated(c, r)
    /\ tasks' = [tasks EXCEPT ![<<c, r>>].updates = @ + 1]
    /\ UNCHANGED <<connections, poisoned, recvClosed, msgCount, lastMsg, spp>>
    /\ UNCHANGED notProg

remove_nothing(requests, r) == requests

\* msg.requests.remove(&request_id)
remove(requests, r) == requests \ {r}

\* RequestUpdate::Completed, RequestUpdate::Aborted: the entry is removed
\* when the connection is in the map; the loop goes on
TaskCompleted(c, r) ==
    /\ Updated(c, r)
    /\ IF poisoned THEN Panics
       ELSE /\ connections' = IF connections[c] # None
                              THEN [connections EXCEPT ![c] = Some(remove(connections[c].v, r))]
                              ELSE connections
            /\ tasks' = [tasks EXCEPT ![<<c, r>>].updates = @ + 1,
                                      ![<<c, r>>].removed = TRUE]
            /\ UNCHANGED spp
    /\ UNCHANGED <<poisoned, recvClosed, msgCount, lastMsg>>
    /\ UNCHANGED notProg

\* the sender of a request's update channel is dropped
CloseUpdates(c, r) ==
    /\ tasks[<<c, r>>].st \in {"pushed", "running"} /\ ~tasks[<<c, r>>].rxClosed
    /\ tasks' = [tasks EXCEPT ![<<c, r>>].rxClosed = TRUE]
    /\ UNCHANGED <<connections, poisoned, recvClosed, msgCount, lastMsg, spp>>
    /\ UNCHANGED notProg

\* rx.recv() yields Ok(None) or Err: the while let ends, the bar is cleared
\* and the future is finished
TaskEnd(c, r) ==
    /\ Polling /\ tasks[<<c, r>>].st = "running" /\ tasks[<<c, r>>].rxClosed
    /\ tasks' = [tasks EXCEPT ![<<c, r>>].st = "ended"]
    /\ UNCHANGED <<connections, poisoned, recvClosed, msgCount, lastMsg, spp>>
    /\ UNCHANGED notProg

ReturnsAtOnce(t) == TRUE

\* while tasks.next().await.is_some() {}: every pushed future has finished
Drained(t) == \A p \in Pairs : t[p].st \in {"none", "ended"}

\* show_provide_progress returns Ok(())
Return ==
    /\ spp = "drain" /\ Drained(tasks)
    /\ spp' = "returned"
    /\ UNCHANGED <<connections, poisoned, recvClosed, msgCount, lastMsg, tasks>>
    /\ UNCHANGED notProg

NextProgress ==
    \/ \E c \in ConnIds : ClientConnectedNotify(c) \/ ConnectionClosed(c)
    \/ \E c \in ConnIds, r \in ReqIds : GetRequestReceivedNotify(c, r)
    \/ OtherMessage
    \/ CloseProvider
    \/ LoopBreak
    \/ \E c \in ConnIds, r \in ReqIds :
          \/ TaskStart(c, r)
          \/ TaskProgress(c, r)
          \/ TaskCompleted(c, r)
          \/ CloseUpdates(c, r)
          \/ TaskEnd(c, r)
    \/ Return

SpecProgress == InitProgress /\ [][NextProgress]_vars

\* the steps of the program are taken when they can be: tokio polls the
\* future again whenever a channel it waits on has changed
ProgressFairness ==
    /\ WF_vars(LoopBreak)
    /\ WF_vars(Return)
    /\ \A c \in ConnIds, r \in ReqIds :
          WF_vars(TaskStart(c, r)) /\ WF_vars(TaskEnd(c, r))

SpecProgressLive == SpecProgress /\ ProgressFairness

\* the state of the mutex is an input: it is poisoned, or it is not
InitPoison ==
    /\ SessionIdle /\ PathIdle /\ AddrIdle /\ SendIdle /\ RerunIdle /\ TwoIdle
    /\ ItemIdle /\ CliIdle
    /\ connections = [c \in ConnIds |-> None]
    /\ poisoned \in BOOLEAN
    /\ recvClosed = FALSE /\ msgCount = 0 /\ lastMsg = None
    /\ spp = "loop"
    /\ tasks = [t \in Pairs |-> NoTask]

SpecPoison == InitPoison /\ [][NextProgress]_vars

(***************************************************************************)
(* cli_progress.rs: CliEventEmitter                                        *)
(***************************************************************************)
MaxCliEvents == 4      \* calls made on one emitter

notCli == <<oldVars, itemVars, progVars>>

\* CliEventEmitter::new
InitCli ==
    /\ SessionIdle /\ PathIdle /\ AddrIdle /\ SendIdle /\ RerunIdle /\ TwoIdle
    /\ ItemIdle /\ ProgIdle
    /\ pb = None /\ bars = <<>> /\ cliLog = <<>> /\ cliRet = None

\* a call is made on the emitter
Called(call) ==
    /\ Len(cliLog) < MaxCliEvents
    /\ cliLog' = Append(cliLog, call)

CliOk == [ok |-> TRUE]

\* self.mp.add(ProgressBar::new(..)); *guard = Some(pb)
AddBar ==
    /\ bars' = Append(bars, "active")
    /\ pb' = Some(Len(bars) + 1)

\* guard.take(), then finish_and_clear() or abandon() on the bar taken
TakeBar(how) ==
    IF pb # None
    THEN bars' = [bars EXCEPT ![pb.v] = how] /\ pb' = None
    ELSE UNCHANGED <<pb, bars>>

\* emit_event("transfer-started" | "receive-started")
EmitStarted ==
    /\ Called(<<"started">>)
    /\ IF pb = None THEN AddBar ELSE UNCHANGED <<pb, bars>>
    /\ cliRet' = Some(CliOk)
    /\ UNCHANGED notCli

\* emit_event("transfer-completed" | "receive-completed")
EmitCompleted ==
    /\ Called(<<"completed">>)
    /\ TakeBar("cleared")
    /\ cliRet' = Some(CliOk)
    /\ UNCHANGED notCli

\* emit_event("transfer-failed" | "receive-failed")
EmitFailed ==
    /\ Called(<<"failed">>)
    /\ TakeBar("abandoned")
    /\ cliRet' = Some(CliOk)
    /\ UNCHANGED notCli

\* emit_event with any other name
EmitOther ==
    /\ Called(<<"other">>)
    /\ cliRet' = Some(CliOk)
    /\ UNCHANGED <<pb, bars>>
    /\ UNCHANGED notCli

\* the parts of a payload "bytes:total:speed" after split(':')
Payloads == {<<"10">>, <<"x", "100">>, <<"10", "x">>, <<"10", "100">>, <<"10", "100", "5">>}

\* str::parse::<u64>
parse_u64(part) == part # "x"

payload_never_adds(parts, bar) == FALSE

\* emit_event_with_payload creates the bar when the payload is well formed
\* and there is none
payload_adds(parts, bar) ==
    Len(parts) >= 2 /\ parse_u64(parts[1]) /\ parse_u64(parts[2]) /\ bar = None

\* emit_event_with_payload(_, payload)
EmitWithPayload ==
    \E parts \in Payloads :
        /\ Called(<<"payload", parts>>)
        /\ IF Len(parts) < 2 \/ ~parse_u64(parts[1]) \/ ~parse_u64(parts[2])
           THEN cliRet' = Some(Err(<<"payload">>)) /\ UNCHANGED <<pb, bars>>
           ELSE /\ cliRet' = Some(CliOk)
                /\ IF payload_adds(parts, pb) THEN AddBar ELSE UNCHANGED <<pb, bars>>
        /\ UNCHANGED notCli

NextCli == EmitStarted \/ EmitCompleted \/ EmitFailed \/ EmitOther \/ EmitWithPayload

SpecCli == InitCli /\ [][NextCli]_vars

(***************************************************************************)
(* Properties                                                              *)
(***************************************************************************)
Returned == sel = "returned"
Cancelled == Err(<<"Operation cancelled">>)
AttemptFailed(i) == ~attemptLog[i].res.ok
SizesErrors == {GetError(k, n) : k \in GetErrors, n \in 1..(RetryLimit + 1)}
Target(j) == resolve(get_export_path(OutputDir, collection[j]).path)
WrittenBefore(k) == {Target(i) : i \in 1..(k - 1)}

\* C1: get_sizes_with_retries that fails on attempts 1 and 2 and succeeds on
\* attempt 3 returns that attempt's sizes; when all three attempts fail it
\* returns the error of the third attempt.
C1_RetryOutcome ==
    /\ (/\ Len(attemptLog) = 3
        /\ AttemptFailed(1) /\ AttemptFailed(2) /\ ~AttemptFailed(3))
       => /\ sizes_opt = Some(attemptLog[3].res.sizes)
          /\ bodyErr \notin SizesErrors
    /\ (/\ Len(attemptLog) = 3
        /\ AttemptFailed(1) /\ AttemptFailed(2) /\ AttemptFailed(3))
       => /\ pc = "done"
          /\ bodyErr = GetError(attemptLog[3].res.e, 3)

C1_Witness ==
    /\ Len(attemptLog) = 3
    /\ AttemptFailed(1) /\ AttemptFailed(2) /\ ~AttemptFailed(3)
    /\ Returned /\ ret.ok

\* C2: a receive run issues the size request at most 3 times, and none after
\* the first successful one.
C2_AtMostThreeRequests ==
    /\ Len(attemptLog) <= 3
    /\ \A i \in 1..Len(attemptLog) : ~AttemptFailed(i) => i = Len(attemptLog)

C2_Witness == Len(attemptLog) = 3 /\ AttemptFailed(3) /\ Returned

\* C3: when the ctrl-c branch wins, download returns the cancellation error
\* and the temporary working directory no longer exists, also when the
\* storage shutdown fails.
C3_CancelCleansUp ==
    (Returned /\ branch = "ctrl_c") => (~tempDir /\ ret = Cancelled)

\* C4: when the receive body fails, the temporary working directory is
\* removed before download returns the error.
C4_FailureCleansUp ==
    (Returned /\ branch = "fut" /\ bodyErr # NoErr) => ~tempDir

\* C5: once the cancellation signal is pending, the select never completes
\* with the body's branch: the outcome is the cancellation.
C5_SignalAlwaysWins ==
    (sig /\ branch # "none") => branch = "ctrl_c"

\* C6: export goes through the entries in collection order; at the first
\* entry whose target exists it fails with a conflict, leaves that file as it
\* was and writes no later entry; no pre-existing file is ever overwritten.
C6_ExportConflict ==
    /\ \A t \in Targets : fs0[t] = "old" => fs[t] = "old"
    /\ (pc = "export" /\ loaded) =>
          \A j \in 1..Len(collection) :
              /\ j < exportIdx => fs[Target(j)] = "new"
              /\ (j >= exportIdx /\ Target(j) \notin WrittenBefore(exportIdx))
                 => fs[Target(j)] = fs0[Target(j)]
    /\ bodyErr[1] = "conflict" =>
          LET k == bodyErr[2]
          IN  /\ fs[Target(k)] = IF Target(k) \in WrittenBefore(k)
                                 THEN "new" ELSE "old"
              /\ Target(k) \notin WrittenBefore(k) => fs0[Target(k)] = "old"
              /\ \A j \in 1..Len(collection) :
                    /\ j < k => /\ fs0[Target(j)] = "absent"
                                /\ Target(j) \notin WrittenBefore(j)
                                /\ fs[Target(j)] = "new"
                    /\ (j > k /\ Target(j) \notin WrittenBefore(k))
                       => fs[Target(j)] = fs0[Target(j)]

C6_Witness ==
    /\ Returned /\ bodyErr = <<"conflict", 1>>
    /\ Len(collection) = 2 /\ Target(2) # Target(1) /\ fs0[Target(2)] = "absent"

\* C7: get_export_path rejects every name that canonicalized_path_to_string
\* (must_be_relative = true) rejects, and no export target lies outside the
\* output directory.
C7_ExportRejectsWhatImportRejects ==
    /\ (/\ exportRes # None /\ importRes # None
        /\ importRes.v.must_be_relative /\ ~importRes.v.res.ok)
       => ~exportRes.v.ok
    /\ (exportRes # None /\ exportRes.v.ok)
       => isPrefix(OutputDir, resolve(exportRes.v.path))

\* C8: when the local store reports the collection complete, download makes
\* no connect, no size request and no retrieval, emits Started immediately
\* followed by Completed, and reports children - 1 files.
C8_LocalComplete ==
    (local # None /\ local.v.is_complete) =>
        /\ connects = 0 /\ attemptLog = <<>> /\ gets = 0
        /\ app = "Some" =>
              /\ Len(events) >= 2
              /\ events[1] = Started /\ events[2] = Completed
        /\ total_files = local.v.children - 1
        /\ (Returned /\ ret.ok) => ret.files = local.v.children - 1

C8_Witness ==
    /\ local # None /\ local.v.is_complete /\ local.v.children = 3
    /\ app = "Some" /\ Returned /\ ret.ok

\* the reporting window after the events of log: "closed", "open", or "bad"
\* when a Completed, Failed or Progress came with no window open
RECURSIVE Window(_)
Window(log) ==
    IF Len(log) = 0 THEN "closed"
    ELSE LET before == Window(SubSeq(log, 1, Len(log) - 1))
             e == log[Len(log)]
         IN  IF before = "bad" THEN "bad"
             ELSE IF e.type = "Started" THEN "open"
             ELSE IF e.type \in {"Completed", "Failed"}
                  THEN IF before = "open" THEN "closed" ELSE "bad"
             ELSE IF e.type = "Progress"
                  THEN IF before = "open" THEN "open" ELSE "bad"
             ELSE before

\* C9: the events of a receive run are well paired: no Completed or Failed
\* without an open Started, every Progress inside a window, and every Started
\* closed when download returns.
C9_EventsWellPaired ==
    /\ Window(events) # "bad"
    /\ Returned => Window(events) = "closed"

\* C10: after apply_options the address list is exactly what the policy
\* keeps of the input: nothing for Id, the Relay entries for Relay, the Ip
\* entries for Addresses, everything for RelayAndAddresses.
C10_PolicyFilter ==
    Len(applied) >= 1 =>
        /\ opts = "Id" => addr.addrs = {}
        /\ opts = "Relay" => addr.addrs = {x \in addr0.addrs : x[1] = "Relay"}
        /\ opts = "Addresses" => addr.addrs = {x \in addr0.addrs : x[1] = "Ip"}
        /\ opts = "RelayAndAddresses" => addr.addrs = addr0.addrs

C10_Witness ==
    /\ applied = <<"core/common">> /\ opts = "Relay"
    /\ \E x, y \in addr0.addrs : x[1] = "Relay" /\ y[1] = "Ip"
    /\ addr.addrs # addr0.addrs

SendEnded == spc \in {"returned", "exited"}
Imported == import_result # None /\ import_result.v.ok

\* C11: every ticket send builds has the HashSeq format and the hash of the
\* collection that import built and stored, whatever the number of files;
\* the collection imported from a single file has exactly one entry, named
\* like the file.
C11_TicketNamesStoredCollection ==
    /\ ticket # None =>
          /\ ticket.v.format = "HashSeq"
          /\ Imported
          /\ ticket.v.hash = HashSeqOf(import_result.v.collection)
          /\ blobs_data_dir => ticket.v.hash \in db
    /\ (tree.kind = "file" /\ Imported) =>
          LET c == import_result.v.collection
          IN  /\ Len(c) = 1
              /\ \E f \in tree.files : c[1] = [name |-> f.path, hash |-> HashOf(f.bytes)]

C11_Witness ==
    /\ ticket # None /\ spc = "serving"
    /\ tree.kind = "file" /\ Len(import_result.v.collection) = 1

Entries(t) == {[name |-> f.path, hash |-> HashOf(f.bytes)] : f \in t.files}
Ascending(c) == \A i, j \in 1..Len(c) : i < j => str_lt(c[i].name, c[j].name)

\* C12: whatever the order in which the import workers end, the collection
\* import builds has its entries in ascending order of name: it is the one
\* ascending sequence of the tree's entries, the same for every schedule.
C12_SortedWhateverTheSchedule ==
    Imported =>
        LET c == import_result.v.collection
        IN  /\ Ascending(c)
            /\ c = CHOOSE s \in Orders(Entries(tree)) : Ascending(s)

C12_Witness ==
    /\ Imported /\ Len(finished) = 3
    /\ str_lt(finished[3].name, finished[2].name)
    /\ str_lt(finished[2].name, finished[1].name)

WorkerFailed == \E i \in 1..Len(workers) : workers[i] = "err"
FailedResults == {finished[k].err : k \in {k \in 1..Len(finished) : ~finished[k].ok}}

\* C13: when the import of a file fails, import returns an error, and no
\* collection is built or stored; the imports of the other files are not
\* cancelled: each of them has been started and has ended by the time the
\* error is returned.
C13_ImportFailsAfterAllEnded ==
    WorkerFailed =>
        /\ ~Imported /\ ticket = None
        /\ \A h \in db : h[1] # "hashseq"
        /\ import_result # None =>
              /\ import_result = Some(Err(sendRet.err))
              /\ import_result.v.err \in FailedResults
              /\ \A i \in 1..Len(workers) : workers[i] \in {"ok", "err"}

C13_Witness ==
    /\ WorkerFailed /\ import_result # None /\ spc = "returned"
    /\ Len(finished) = 3
    /\ ~finished[1].ok /\ finished[2].ok /\ finished[3].ok

\* the files of an output directory, and the files the tree is expected to
\* leave there: each at its relative path, with its bytes
Written(files) == {<<t, files[t]>> : t \in {t \in DOMAIN files : files[t] # "absent"}}
Expected(t) == {<<OutputDir \o split(f.path), f.bytes>> : f \in t.files}
NameRejected ==
    import_result # None /\ ~import_result.v.ok /\ import_result.v.err[1] = "name"
ExportedAll == exported # None /\ exported.v.ok
Reproduced == ExportedAll /\ Written(exported.v.files) = Expected(tree)

C15_ReportedSizes ==
    sizes_opt # None =>
        LET sizes == sizes_opt.v
            bytes == IF Len(sizes) = 0 THEN 0 ELSE Sum(sizes) - sizes[1]
            files == IF Len(sizes) = 0 THEN 0 ELSE Len(sizes) - 1
        IN  /\ payload_size = bytes /\ total_files = files
            /\ (Returned /\ ret.ok) =>
                  ret.message = <<"Downloaded ", files, " files, ", bytes, " bytes">>

C15_Witness ==
    /\ Returned /\ ret.ok
    /\ sizes_opt = Some(<<MetaSize, FileSize>>)
    /\ ret.message = <<"Downloaded ", 1, " files, ", FileSize, " bytes">>

\* C17: when a sender session has ended, its working directory is gone:
\* after the ctrl-c shutdown, after a failed setup, after ctrl-c during
\* setup, and after a router shutdown that did not end within 2 s (the one
\* exception made here: the removal itself failed).
C17_SenderDirRemoved ==
    (SendEnded /\ sendRet # Err(<<"io", "remove_dir_all">>)) => ~blobs_data_dir

\* C18: when the receive body has failed, download returns that failure,
\* whether the storage shutdown on the failure path succeeds or fails.
C18_BodyErrorReturned ==
    (Returned /\ branch = "fut" /\ bodyErr # NoErr) => ret = Err(<<"error", bodyErr>>)

\* C19: after a receive run that fetched all data and then failed with an
\* export conflict, a later receive of the same ticket finds the collection
\* complete in the local store and makes no connect, no size request and no
\* retrieval.
C19_NoSecondRetrieval ==
    (/\ prevRun # None
     /\ prevRun.v.err[1] = "conflict" /\ prevRun.v.gets > 0
     /\ prevRun.v.streamDone)
    => /\ local # None => local.v.is_complete
       /\ connects = 0 /\ attemptLog = <<>> /\ gets = 0

C19_Witness ==
    /\ prevRun # None
    /\ prevRun.v.err[1] = "conflict" /\ prevRun.v.gets > 0
    /\ prevRun.v.streamDone
    /\ local # None /\ Returned /\ bodyErr[1] = "conflict"

Using(s) == twoPc[s] \in {"running", "remove"}

\* C20: two receive sessions that run at the same time never have the same
\* working directory, also for the same ticket, and the directory of a
\* running session is never removed by the other session's cleanup.
C20_NoSharedDirectory ==
    \A s, t \in Sessions :
        (s # t /\ Using(s)) =>
            /\ Using(t) => twoDir[s] # twoDir[t]
            /\ twoDir[s].v \in tmpDirs

\* C21: in get_sizes_with_retries the wait after failed attempt k is 250 ms
\* times k for k = 1 and k = 2 (250 ms, then 500 ms), each made once the
\* attempt has failed, and after the third failed attempt there is neither a
\* wait nor a reconnect: the waits stay <<250, 500>> and the connects stay 3.
C21_BackoffIsLinearAndEndsAtThree ==
    /\ Len(waits) <= 2
    /\ \A k \in 1..Len(waits) : waits[k] = 250 * k /\ AttemptFailed(k)
    /\ \A k \in 1..Len(attemptLog) :
          (k < Len(attemptLog) /\ AttemptFailed(k)) => Len(waits) >= k
    /\ (Len(attemptLog) = 3 /\ AttemptFailed(3))
          => /\ waits = <<250, 500>>
             /\ connects = 3
             /\ pc \notin {"gs_backoff", "gs_reconnect"}

C21_Witness ==
    /\ Returned
    /\ Len(attemptLog) = 3 /\ AttemptFailed(3)
    /\ waits = <<250, 500>>

\* C22: every retry of get_sizes_with_retries (attempt 2 and attempt 3) is
\* issued on a connection established after the preceding failed attempt, so
\* no attempt uses the connection of the attempt before it.
C22_RetryOnFreshConnection ==
    \A i \in 2..Len(attemptLog) : attemptLog[i].conn # attemptLog[i - 1].conn

\* C23: a failure of the first connect of get_sizes_with_retries ends the
\* body at once, with no size request, no wait and no second connect; a
\* failure of the connect that download makes for the retrieval stream ends
\* the body too, with no connect after it. In both cases no retrieval is
\* started, the collection is not loaded and no file is written.
C23_ConnectFailureAborts ==
    (bodyErr = <<"connect">>)
        => /\ pc = "done" /\ branch = "fut"
           /\ gets = 0 /\ ~loaded /\ exportIdx = 0 /\ fs = fs0
           /\ IF sizes_opt = None
              THEN attemptLog = <<>> /\ waits = <<>> /\ connects = 1
              ELSE /\ attemptLog[Len(attemptLog)].res.ok
                   /\ connects = Len(attemptLog) + 1

C23_Witness ==
    /\ Returned /\ bodyErr = <<"connect">>
    /\ sizes_opt = None /\ attemptLog = <<>> /\ connects = 1

\* the Progress events of the log, in order
ProgressEvents == SelectSeq(events, LAMBDA e : e.type = "Progress")

\* the Progress events raised for stream offsets: those after the first one
\* (processed = 0), without the final one that a Done item raises
OffsetEvents ==
    SubSeq(ProgressEvents, 2, Len(ProgressEvents) - (IF streamDone THEN 1 ELSE 0))

\* the offset last reported before the k-th offset event
ReportedBefore(k) == IF k = 1 THEN 0 ELSE OffsetEvents[k - 1].processed

\* C24: process_get_stream raises a Progress event for a stream offset only
\* when the offset exceeds the last reported offset by more than 1 MiB
\* (1,048,576 bytes).
C24_EventOnlyBeyondOneMiB ==
    \A k \in 1..Len(OffsetEvents) :
        OffsetEvents[k].processed - ReportedBefore(k) > 1024 * 1024

\* process_get_stream has returned Ok: download is at Collection::load or in
\* export after a retrieval
StreamReturnedOk == gets > 0 /\ pc \in {"load", "export"}

\* C25: whenever process_get_stream has returned Ok, exactly one Progress
\* event with processed = total = payload size follows the first Progress
\* event, and it is the last Progress event of the run, whichever way the
\* stream ended (with a Done item or without one).
C25_FinalProgressOnEveryOk ==
    (StreamReturnedOk /\ app = "Some")
        => LET P == ProgressEvents
           IN  /\ Len(P) >= 2
               /\ P[Len(P)] = Progress(payload_size, payload_size)
               /\ Cardinality({k \in 2..Len(P) :
                                  P[k] = Progress(payload_size, payload_size)}) = 1

\* C26: within one receive run the processed values of the emitted Progress
\* events never decrease from one event to the next, and no Progress event
\* has processed above its total.
C26_ProgressMonotoneAndBounded ==
    \A k \in 1..Len(ProgressEvents) :
        /\ ProgressEvents[k].processed <= ProgressEvents[k].total
        /\ k > 1 => ProgressEvents[k - 1].processed <= ProgressEvents[k].processed

\* the body has failed on an Error item of the retrieval stream
StreamFailed == bodyErr[1] = "get" /\ bodyErr[3] = 0

\* C27: an Error item of the retrieval stream ends the body at once: the
\* retrieval is executed once and never again, no connect follows the one
\* made for the stream, no final Progress event is emitted (every Progress
\* event after the first reports a stream offset already consumed), the
\* collection is not loaded and no file is exported.
C27_StreamErrorAbortsAtOnce ==
    /\ gets <= 1
    /\ StreamFailed
          => /\ pc = "done" /\ branch = "fut"
             /\ gets = 1 /\ connects = Len(attemptLog) + 1
             /\ ~streamDone
             /\ \A k \in 2..Len(ProgressEvents) :
                    /\ ProgressEvents[k].processed <= streamPos
                    /\ ProgressEvents[k].processed
                         - ProgressEvents[k - 1].processed > ProgressThreshold
             /\ \A k \in 1..Len(events) : events[k].type \in {"Started", "Progress"}
             /\ ~loaded /\ exportIdx = 0 /\ fs = fs0

C27_Witness ==
    /\ Returned /\ StreamFailed
    /\ streamPos > 0 /\ Len(ProgressEvents) = 2

\* the FileNames events of the log, in order
FileNamesEvents == SelectSeq(events, LAMBDA e : e.type = "FileNames")

\* C28: in download with an emitter, a loaded non-empty collection has raised
\* exactly one FileNames event, which lists the entry names in collection
\* order, and no file is exported before it; an empty collection, or one not
\* loaded, raises none. On the network path, once the sizes are known and so
\* before the retrieval stream is started, the log begins with Started and
\* then Progress with processed = 0 and total = payload size.
C28_FileNamesAndFirstProgress ==
    app = "Some"
        => /\ (loaded /\ collection # <<>>)
                 => /\ Len(FileNamesEvents) = 1
                    /\ FileNamesEvents[1].file_names = collection
           /\ (~loaded \/ collection = <<>>) => FileNamesEvents = <<>>
           /\ fs # fs0 => Len(FileNamesEvents) = 1
           /\ (sizes_opt # None \/ gets > 0)
                 => /\ Len(events) >= 2
                    /\ events[1] = Started
                    /\ events[2] = Progress(0, payload_size)
                    /\ payload_size = Sum(skip1(sizes_opt.v))

C28_Witness ==
    /\ app = "Some" /\ Returned /\ gets > 0
    /\ Len(collection) = 2 /\ collection[1] # collection[2]
    /\ exportIdx > 1 /\ fs # fs0
    /\ Len(FileNamesEvents) = 1

\* C29: when export fails at entry k (conflict or export fault), the files of
\* the entries before k are in the output directory; and in a re-run for the
\* same ticket and output directory after a failure at an entry k >= 2, no
\* file is written, the body never returns Ok, and an export that is reached
\* fails with a conflict on entry 1, the first entry the failed run exported.
C29_PartialExportBlocksRerun ==
    /\ bodyErr[1] \in {"conflict", "export"}
          => \A j \in 1..(bodyErr[2] - 1) : fs[Target(j)] = "new"
    /\ (prevRun # None /\ prevRun.v.err[2] >= 2)
          => /\ fs = fs0
             /\ fs[Target(1)] = "new"
             /\ pc = "export" => exportIdx = 1
             /\ bodyErr[1] \in {"path", "conflict", "export"} => bodyErr = <<"conflict", 1>>
             /\ (Returned /\ branch = "fut") => bodyErr # NoErr

C29_Witness ==
    /\ prevRun # None /\ prevRun.v.err[2] = 2
    /\ Returned /\ loaded /\ bodyErr = <<"conflict", 1>>

\* the import workers that have ended
Ended == {i \in 1..Len(workers) : workers[i] \in {"ok", "err"}}

\* the number of results that the import of data source i has produced
ResultsOf(i) ==
    Cardinality({k \in 1..Len(finished) : finished[k].name = data_sources[i].name})

\* C30: at every moment of import the number of file imports in flight is at
\* most the processor count; the data sources are the regular files of the
\* tree, each listed once; an import that has ended has produced exactly one
\* result and one that has not has produced none; and when import returns Ok
\* every file has been imported, once.
C30_BoundedImportsEachFileOnce ==
    /\ Cardinality(InFlight) <= parallelism
    /\ workers # <<>>
          => /\ Len(workers) = Len(data_sources)
             /\ Len(data_sources) = Cardinality(tree.files)
             /\ {data_sources[i].path : i \in 1..Len(data_sources)}
                   = {f.path : f \in tree.files}
             /\ Len(finished) = Cardinality(Ended)
             /\ \A i \in 1..Len(workers) :
                    ResultsOf(i) = IF i \in Ended THEN 1 ELSE 0
    /\ Imported
          => /\ Ended = 1..Len(workers)
             /\ \A i \in 1..Len(workers) : workers[i] = "ok"
             /\ Len(import_result.v.collection) = Cardinality(tree.files)

C30_Witness ==
    /\ spc = "workers"
    /\ Cardinality(InFlight) = parallelism
    /\ Queued # {} /\ Ended # {}

\* the address-readiness wait of setup has elapsed
OnlineElapsed == sendRet = Err(<<"elapsed", "online">>)

\* C32: in a sender session a ticket exists only once import has returned Ok
\* and the readiness wait is over: there is none while setup is running, and
\* the step that builds it starts after the wait, with the stored
\* collection's hash in the store. The wait elapses only when the relay mode
\* is not Disabled; send then returns that error and never builds a ticket.
C32_TicketAfterImportAndReadiness ==
    /\ spc \in {"start"} \cup SetupPositions => ticket = None
    /\ (ticket # None \/ spc = "ticket")
          => /\ Imported
             /\ blobs_data_dir => import_result.v.temp_tag \in db
             /\ ticket # None => ticket.v.hash = import_result.v.temp_tag
    /\ OnlineElapsed
          => /\ relay_mode # "Disabled"
             /\ spc = "returned"
             /\ Imported /\ ticket = None

C32_Witness ==
    /\ OnlineElapsed
    /\ Imported /\ Len(import_result.v.collection) = 2
    /\ spc = "returned"

\* the bars of mp that are active
ActiveBars == {i \in 1..Len(bars) : bars[i] = "active"}

\* the last started, completed or failed call made so far ("none" when no
\* such call was made)
RECURSIVE LastWindowCall(_)
LastWindowCall(log) ==
    IF log = <<>> THEN "none"
    ELSE IF log[Len(log)][1] \in {"started", "completed", "failed"}
         THEN log[Len(log)][1]
    ELSE LastWindowCall(SubSeq(log, 1, Len(log) - 1))

\* C36: for every sequence of calls on a CliEventEmitter, at most one bar
\* is active, and it is the one the emitter holds; and after a completed or
\* failed event, until the next started event, no bar is active.
C36_OneBarInsideTheWindow ==
    /\ Cardinality(ActiveBars) <= 1
    /\ ActiveBars = (IF pb = None THEN {} ELSE {pb.v})
    /\ LastWindowCall(cliLog) \in {"completed", "failed"} => pb = None

\* C37: apply_options is idempotent for every policy: once it has been
\* applied, applying it again with the same policy leaves the address as it
\* is. It never adds an address that was not in the input and leaves the
\* endpoint identity unchanged; what Relay keeps of an input and what
\* Addresses keeps of it are disjoint.
C37_ApplyOptionsIdempotent ==
    /\ addr.id = addr0.id
    /\ addr.addrs \subseteq addr0.addrs
    /\ Len(applied) >= 1 => apply_options(addr, opts) = addr
    /\ Len(applied) = 0
          => apply_options(apply_options(addr, opts), opts) = apply_options(addr, opts)
    /\ apply_options(addr0, "Relay").addrs \cap apply_options(addr0, "Addresses").addrs = {}

C37_Witness ==
    /\ applied = <<"core/common", "core/common">> /\ opts = "Relay"
    /\ \E x, y \in addr0.addrs : x[1] = "Relay" /\ y[1] = "Ip"
    /\ addr.addrs # {} /\ addr.addrs # addr0.addrs

\* the components of the path under test, their kinds, and its Normal parts
PathComps == components(pname)
HasKind(k) == \E i \in 1..Len(PathComps) : PathComps[i].kind = k
NormalParts ==
    LET normals == SelectSeq(PathComps, LAMBDA c : c.kind = "Normal")
    IN  [i \in 1..Len(normals) |-> normals[i].s]
HasBackslash == \E i \in 1..Len(NormalParts) : contains(NormalParts[i], "\\")

\* the path has Normal components only, but for a root component where one
\* is allowed
OnlyNormal(must_be_relative) ==
    /\ ~HasKind("ParentDir") /\ ~HasKind("CurDir")
    /\ must_be_relative => ~HasKind("RootDir")

FirstEnding ==
    LET ending == {i \in 1..Len(items) : items[i].kind \in {"Done", "Error"}}
    IN  IF ending = {} THEN 0 ELSE CHOOSE i \in ending : \A j \in ending : i <= j

\* the size of the last Size item among the first n items (0 when none)
LastSize(n) ==
    LET sized == {i \in 1..n : items[i].kind = "Size"}
    IN  IF sized = {} THEN 0
        ELSE items[CHOOSE i \in sized : \A j \in sized : j <= i].size

\* C31: for one file's import stream the worker ends with the tag of the
\* first Done item when no Error item precedes it, fails at the first Error
\* item when no Done item precedes it, and fails with "import stream ended
\* without a tag" when the stream ends with neither; it consumes nothing
\* after that item, and the size it records is that of the last Size item
\* seen before it (0 when none was seen).
C31_WorkerResultOfItemStream ==
    itemRes # None
        => LET k == FirstEnding
           IN  IF k = 0
               THEN /\ itemRes.v = Err(<<"import stream ended without a tag">>)
                    /\ itemPos = Len(items)
               ELSE /\ itemPos = k
                    /\ IF items[k].kind = "Done"
                       THEN /\ itemRes.v.ok
                            /\ itemRes.v.temp_tag = items[k].tt
                            /\ itemRes.v.item_size = LastSize(k)
                       ELSE itemRes.v = Err(<<"error importing", items[k].cause>>)

C31_Witness ==
    /\ itemRes # None /\ itemRes.v.ok
    /\ Len(items) = 3 /\ itemPos = 3
    /\ items[1].kind = "Size" /\ items[2].kind = "Size"
    /\ items[1].size # items[2].size
    /\ itemRes.v.item_size = items[2].size

RequestEntries == {p \in Pairs : connections[p[1]] # None /\ p[2] \in connections[p[1]].v}

\* C34: for every interleaving of provider messages and per-request
\* futures, an entry of the progress map was registered by its request's
\* future, under a connection that is in the map, and that future has not
\* yet seen Completed or Aborted; a future that finds its connection
\* unknown when it first runs registers nothing and ends; once a future has
\* handled Completed or Aborted its request has no entry; and after
\* ConnectionClosed the connection is not in the map, nor any of its entries.
C34_EntriesFollowTheirRequests ==
    /\ \A p \in RequestEntries :
          /\ connections[p[1]] # None
          /\ tasks[p].registered /\ ~tasks[p].removed
          /\ tasks[p].st \in {"running", "ended"}
    /\ \A p \in Pairs :
          /\ tasks[p].st = "running" => tasks[p].registered
          /\ (tasks[p].st = "ended" /\ ~tasks[p].registered)
                => (p \notin RequestEntries /\ tasks[p].updates = 0)
          /\ tasks[p].removed => p \notin RequestEntries
    /\ \A c \in ConnIds :
          lastMsg = Some(<<"ConnectionClosed", c>>)
             => (connections[c] = None /\ \A r \in ReqIds : <<c, r>> \notin RequestEntries)

C34_Witness ==
    \E c \in ConnIds, r \in ReqIds :
        /\ lastMsg = Some(<<"ConnectionClosed", c>>)
        /\ tasks[<<c, r>>].registered /\ tasks[<<c, r>>].st = "running"
        /\ connections[c] = None

\* every request's update channel is closed (or its future has ended)
UpdatesClosed == \A p \in Pairs : tasks[p].st \in {"none", "ended"} \/ tasks[p].rxClosed

\* C35: show_provide_progress returns only after the provider message
\* channel has been closed and every per-request future it pushed has
\* finished; and once the provider channel is closed and every request's
\* update channel is closed, it eventually returns.
C35_ReturnsAfterCloseAndDrain ==
    /\ [](spp = "returned"
             => (recvClosed /\ \A p \in Pairs : tasks[p].st \in {"none", "ended"}))
    /\ ((recvClosed /\ UpdatesClosed) ~> (spp = "returned"))

C35_Witness ==
    /\ spp = "returned" /\ recvClosed
    /\ Cardinality({p \in Pairs : tasks[p].st = "ended"}) >= 2
    /\ \E p \in Pairs : tasks[p].registered

====
